---- MODULE Spec2Model ----
(***************************************************************************)
(* ChexExplorer: the navigation state of core/file_manager.rs              *)
(* (FileManager), the directory snapshot it builds with                    *)
(* core/file_item.rs, and the tasks ui/*.rs spawn on the shared            *)
(* Arc<Mutex<FileManager>>.                                                *)
(*                                                                         *)
(* A path is the sequence of its components, <<"/">> being the root; the   *)
(* empty sequence stands for Option::None / PathBuf::new().  The struct    *)
(* FileManager is the record fm; each method is an operator from the       *)
(* record (and the outcomes of its system calls) to the record it leaves   *)
(* and its Result.                                                         *)
(***************************************************************************)
EXTENDS Integers, Sequences, FiniteSets, TLC

VARIABLES fm, last, trip, lock, pc, job, disk, run, events

vars == <<fm, last, trip, lock, pc, job, disk, run, events>>

\* the browsing session, and a background operation (a copy or a search)
\* with the disk it works on and the progress channel of a copy
session == <<fm, last, trip, lock, pc, job>>
operation == <<disk, run, events>>

\* no operation was created
Idle == disk = <<>> /\ run = <<>> /\ events = <<>>

\* ------------------------------------------------------------------ bounds

\* most entries the history may hold before navigate stops being explored
MaxHistory == 3
\* most change notifications queued in the watcher channel
MaxEvents == 1
\* most tasks spawned on the runtime and not yet finished
MaxTasks == 2
\* most results queued in the watcher channel where the drain is followed
MaxQueue == 2
\* most entries of a directory content given to the listing
MaxLen == 3
\* the longest path the platform accepts, in components (PATH_MAX)
PathMax == 6

\* ------------------------------------------------------- the file system

None == <<>>
Root == <<"/">>
HomeDir == <<"/", "home">>
PrivDir == <<"/", "priv">>
MdPath == <<"/", "B.md">>
TxtPath == <<"/", "home", "a.txt">>
CfgPath == <<"/", "home", ".cfg">>
LnkPath == <<"/", "home", "lnk">>
PipePath == <<"/", "priv", "A.TXT">>

\* What std::fs::metadata (which follows symbolic links) finds at each path
\* of the tree the session browses.  kind "dangling" is a symbolic link whose
\* target is gone: metadata() fails on it, Path::exists() is false.
\* readable = FALSE is a directory read_dir() is refused on (mode 000).
Fs ==
  (Root :> [kind |-> "dir", len |-> 4096, modified |-> 9, created |-> <<1>>, readable |-> TRUE])
  @@ (HomeDir :> [kind |-> "dir", len |-> 4096, modified |-> 8, created |-> <<2>>, readable |-> TRUE])
  @@ (PrivDir :> [kind |-> "dir", len |-> 4096, modified |-> 3, created |-> <<>>, readable |-> FALSE])
  @@ (MdPath :> [kind |-> "file", len |-> 10, modified |-> 2, created |-> <<>>, readable |-> TRUE])
  @@ (TxtPath :> [kind |-> "file", len |-> 300, modified |-> 7, created |-> <<5>>, readable |-> TRUE])
  @@ (CfgPath :> [kind |-> "file", len |-> 20, modified |-> 6, created |-> <<4>>, readable |-> TRUE])
  @@ (LnkPath :> [kind |-> "dangling", len |-> 0, modified |-> 0, created |-> <<>>, readable |-> FALSE])
  @@ (PipePath :> [kind |-> "fifo", len |-> 0, modified |-> 7, created |-> <<5>>, readable |-> TRUE])

\* the code points of the characters of each file name
Chars ==
  [n \in {"/", "home", "priv", "B.md", "a.txt", ".cfg", "lnk", "A.TXT", "ghost", ""} |->
    CASE n = "/" -> <<47>>
      [] n = "home" -> <<104, 111, 109, 101>>
      [] n = "priv" -> <<112, 114, 105, 118>>
      [] n = "B.md" -> <<66, 46, 109, 100>>
      [] n = "a.txt" -> <<97, 46, 116, 120, 116>>
      [] n = ".cfg" -> <<46, 99, 102, 103>>
      [] n = "lnk" -> <<108, 110, 107>>
      [] n = "A.TXT" -> <<65, 46, 84, 88, 84>>
      [] n = "ghost" -> <<103, 104, 111, 115, 116>>
      [] OTHER -> <<>>]

\* a path that names nothing
GhostPath == <<"/", "ghost">>

\* Path::exists
Exists(p) == p \in DOMAIN Fs /\ Fs[p].kind # "dangling"

\* Path::is_dir
IsDir(p) == Exists(p) /\ Fs[p].kind = "dir"

\* Path::parent: None for the root (and for the empty path)
Parent(p) == IF Len(p) <= 1 THEN None ELSE SubSeq(p, 1, Len(p) - 1)

\* Path::file_name().unwrap_or_default(): the root has none
FileName(p) == IF Len(p) <= 1 THEN "" ELSE p[Len(p)]

Dirs == {p \in DOMAIN Fs : IsDir(p)}

\* the row indices a click may carry (a row past the end of a short snapshot
\* included)
ClickRows == {0, 1}

\* the paths a navigation intent may carry: every directory, a file and a
\* path that does not exist
NavTargets == Dirs \cup {TxtPath, GhostPath}

Children(p) == {q \in DOMAIN Fs : Parent(q) = p}

\* every order in which read_dir may yield a set of entries (the order is
\* unspecified)
Perms(S) ==
  {s \in [1..Cardinality(S) -> S] : \A i, j \in 1..Cardinality(S) : i # j => s[i] # s[j]}

ReadDirOrders == [p \in Dirs |-> Perms(Children(p))]

\* std::fs::read_dir succeeds
ReadDirOk(p) == IsDir(p) /\ Fs[p].readable

\* an item of the ReadDir iterator that is Err(..) instead of a DirEntry
EntryErr == <<"?">>

\* what iterating read_dir(p) may yield when reading an entry may fail: an
\* order of the entries, or one with an Err in the place of an entry
ReadDirResults(p) ==
  ReadDirOrders[p] \cup
    {[o EXCEPT ![k] = EntryErr] : o \in ReadDirOrders[p], k \in 1..Cardinality(Children(p))}

\* ------------------------------------------------- FileItem (file_item.rs)

\* FileItem::is_hidden_file (not windows): the name starts with '.'
IsHiddenFile(p) == Len(Chars[FileName(p)]) > 0 /\ Chars[FileName(p)][1] = 46

\* the FileType from_path derives from the metadata
FileTypeOf(p) ==
  IF Fs[p].kind = "dir" THEN "Directory"
  ELSE IF Fs[p].kind = "file" THEN "RegularFile"
  ELSE "Other"

\* FileItem::from_path succeeds: std::fs::metadata(path)? does
FromPathOk(p) == Exists(p)

\* FileItem::from_path: the snapshot of one entry
FromPath(p) ==
  [name |-> FileName(p), path |-> p, file_type |-> FileTypeOf(p), size |-> Fs[p].len,
   modified |-> Fs[p].modified, created |-> Fs[p].created, is_hidden |-> IsHiddenFile(p)]

\* char::to_lowercase on the code points in use (ASCII)
ToLowerChar(c) == IF c \in 65..90 THEN c + 32 ELSE c

\* str::to_lowercase of a file name, as code points
ToLowercase(n) == [i \in 1..Len(Chars[n]) |-> ToLowerChar(Chars[n][i])]

\* Ord::cmp on integers: -1 Less, 0 Equal, 1 Greater
CmpInt(a, b) == IF a < b THEN -1 ELSE IF a > b THEN 1 ELSE 0

\* Ord::cmp on strings: lexicographic on the code points
CmpStr(a, b) ==
  LET n == IF Len(a) < Len(b) THEN Len(a) ELSE Len(b)
      diff == {k \in 1..n : a[k] # b[k]}
  IN  IF diff = {} THEN CmpInt(Len(a), Len(b))
      ELSE LET k == CHOOSE x \in diff : \A y \in diff : x <= y
           IN  CmpInt(a[k], b[k])

\* Ord::cmp on Option<DateTime>: None before every Some
CmpOption(a, b) ==
  IF a = <<>> THEN (IF b = <<>> THEN 0 ELSE -1)
  ELSE IF b = <<>> THEN 1 ELSE CmpInt(a[1], b[1])

\* impl Ord for FileType
CmpFileType(a, b) ==
  IF a = "Directory" /\ b = "Directory" THEN 0
  ELSE IF a = "Directory" THEN -1
  ELSE IF b = "Directory" THEN 1
  ELSE 0

SortKeys == {"Name", "Size", "Modified", "Type", "Created"}
SortOrders == {"Ascending", "Descending"}

\* the (key, direction) pairs the session's sort intents are drawn from
SortChoices == {<<"Name", "Ascending">>, <<"Type", "Descending">>}

\* mutant: the closure ignores the direction
Comparison_IgnoreOrder(a, b, sort_by, sort_order) ==
  CASE sort_by = "Name" -> CmpStr(ToLowercase(a.name), ToLowercase(b.name))
    [] sort_by = "Size" -> CmpInt(a.size, b.size)
    [] sort_by = "Modified" -> CmpInt(a.modified, b.modified)
    [] sort_by = "Type" -> CmpFileType(a.file_type, b.file_type)
    [] sort_by = "Created" -> CmpOption(a.created, b.created)

\* the closure given to items.sort_by in sort_items
Comparison(a, b, sort_by, sort_order) ==
  LET comparison ==
        CASE sort_by = "Name" -> CmpStr(ToLowercase(a.name), ToLowercase(b.name))
          [] sort_by = "Size" -> CmpInt(a.size, b.size)
          [] sort_by = "Modified" -> CmpInt(a.modified, b.modified)
          [] sort_by = "Type" -> CmpFileType(a.file_type, b.file_type)
          [] sort_by = "Created" -> CmpOption(a.created, b.created)
  IN  IF sort_order = "Ascending" THEN comparison ELSE 0 - comparison

\* slice::sort_by, a stable sort: s[j] ends before s[i] when it compares Less,
\* or compares Equal and stood before it
StableSort(s, Cmp(_, _)) ==
  LET n == Len(s)
      before(j, i) == Cmp(s[j], s[i]) < 0 \/ (Cmp(s[j], s[i]) = 0 /\ j < i)
      rank(i) == Cardinality({j \in 1..n : j # i /\ before(j, i)})
  IN  [k \in 1..n |-> s[CHOOSE i \in 1..n : rank(i) = k - 1]]

\* the key of items.sort_by_key: directories first
DirKey(item) == IF item.file_type = "Directory" THEN 0 ELSE 1

\* mutant: sort_items without its directories-first pass
SortItems_NoDirPass(items, sort_by, sort_order) ==
  StableSort(items, LAMBDA a, b : Comparison(a, b, sort_by, sort_order))

\* mutant: the directories-first pass does not keep the order it finds
SortItems_UnstableDirPass(items, sort_by, sort_order) ==
  LET primary == StableSort(items, LAMBDA a, b : Comparison(a, b, sort_by, sort_order))
      turned == [k \in 1..Len(primary) |-> primary[Len(primary) + 1 - k]]
  IN  StableSort(turned, LAMBDA a, b : CmpInt(DirKey(a), DirKey(b)))

\* FileItem::sort_items
SortItems(items, sort_by, sort_order) ==
  LET primary == StableSort(items, LAMBDA a, b : Comparison(a, b, sort_by, sort_order))
  IN  StableSort(primary, LAMBDA a, b : CmpInt(DirKey(a), DirKey(b)))

\* --------------------------------------------- FileManager (file_manager.rs)

\* FileManager::new.  watcher is the path under watch (None: no watcher);
\* watcher_rx the notify::Result<Event> values queued in the channel of that
\* watcher, oldest first: "event" for Ok(event), "error" for Err(..).
New ==
  [current_path |-> HomeDir, items |-> <<>>, selected_items |-> <<>>,
   history |-> <<HomeDir>>, history_index |-> 0,
   sort_by |-> "Name", sort_order |-> "Ascending", show_hidden |-> FALSE,
   watcher |-> None, watcher_rx |-> <<>>]

\* a Result<()> together with the struct the call leaves
Ok(m) == [fm |-> m, ok |-> TRUE]
Err(m) == [fm |-> m, ok |-> FALSE]

\* the loop of refresh_items over the entries read_dir yielded in `order`:
\* an entry whose from_path fails is skipped, a hidden one kept only with show_hidden
ListItems(order, show_hidden) ==
  LET keep(p) == FromPathOk(p) /\ (show_hidden \/ ~IsHiddenFile(p))
      kept == SelectSeq(order, keep)
  IN  [i \in 1..Len(kept) |-> FromPath(kept[i])]

\* what refresh_items builds from the entries read_dir yielded in `order`
Snapshot(order, show_hidden, sort_by, sort_order) ==
  SortItems(ListItems(order, show_hidden), sort_by, sort_order)

\* Snapshot, evaluated once for every listing the tree allows
SnapshotTable ==
  [x \in (UNION {ReadDirOrders[p] : p \in Dirs}) \X BOOLEAN \X SortKeys \X SortOrders |->
      Snapshot(x[1], x[2], x[3], x[4])] @@ <<>>

\* the orders of read_dir(p) that lead to different snapshots under the given
\* settings: one order for each snapshot the listing can produce
OrderTable ==
  [x \in Dirs \X BOOLEAN \X SortKeys \X SortOrders |->
      {CHOOSE o2 \in ReadDirOrders[x[1]] :
          SnapshotTable[<<o2, x[2], x[3], x[4]>>] = SnapshotTable[<<o, x[2], x[3], x[4]>>] :
       o \in ReadDirOrders[x[1]]}] @@ <<>>

\* the outcomes of read_dir(p) for a session with the settings of m: an order
\* of the entries, or the empty order of a failed read (which nothing uses)
OrdersOf(m, p) ==
  IF ReadDirOk(p) THEN OrderTable[<<p, m.show_hidden, m.sort_by, m.sort_order>>] ELSE {<<>>}

\* mutant: the selection is not cleared after the snapshot is replaced
RefreshItems_KeepSelection(m, order) ==
  IF ~ReadDirOk(m.current_path) THEN Err(m)
  ELSE Ok([m EXCEPT !.items = SnapshotTable[<<order, m.show_hidden, m.sort_by, m.sort_order>>]])

\* mutant: the refresh records the current path in the history, as navigate_to does
RefreshItems_PushHistory(m, order) ==
  IF ~ReadDirOk(m.current_path) THEN Err(m)
  ELSE Ok([m EXCEPT !.items = SnapshotTable[<<order, m.show_hidden, m.sort_by, m.sort_order>>],
                    !.selected_items = <<>>,
                    !.history = Append(SubSeq(m.history, 1, m.history_index + 1), m.current_path),
                    !.history_index = m.history_index + 1])

\* FileManager::refresh_items
RefreshItems(m, order) ==
  IF ~ReadDirOk(m.current_path) THEN Err(m)
  ELSE IF \E k \in 1..Len(order) : order[k] = EntryErr THEN Err(m)
  ELSE Ok([m EXCEPT !.items = SnapshotTable[<<order, m.show_hidden, m.sort_by, m.sort_order>>],
                    !.selected_items = <<>>])

\* FileManager::setup_watcher; watch_ok: recommended_watcher() and watch() succeed
SetupWatcher(m, path, watch_ok) ==
  IF ~watch_ok THEN Err(m)
  ELSE Ok([m EXCEPT !.watcher = path, !.watcher_rx = <<>>])

\* navigate_to, "Update current path"
NavSetPath(m, path) == [m EXCEPT !.current_path = path]

\* mutant: the history is not truncated after the cursor before the push
NavUpdateHistory_NoTruncate(m, path) ==
  IF m.history[Len(m.history)] # path
  THEN [m EXCEPT !.history = Append(m.history, path), !.history_index = Len(m.history)]
  ELSE m

\* mutant: the cursor is set to history.len() instead of history.len() - 1
NavUpdateHistory_OffByOne(m, path) ==
  LET truncated == SubSeq(m.history, 1, m.history_index + 1)
  IN  IF truncated[Len(truncated)] # path
      THEN [m EXCEPT !.history = Append(truncated, path), !.history_index = Len(truncated) + 1]
      ELSE [m EXCEPT !.history = truncated]

\* mutant: the push moves the cursor but leaves the entries after it in place
NavUpdateHistory_KeepForward(m, path) ==
  LET truncated == SubSeq(m.history, 1, m.history_index + 1)
      forward == SubSeq(m.history, m.history_index + 2, Len(m.history))
  IN  IF truncated[Len(truncated)] # path
      THEN [m EXCEPT !.history = Append(truncated, path) \o forward,
                     !.history_index = Len(truncated)]
      ELSE m

\* navigate_to, "Update history"
NavUpdateHistory(m, path) ==
  LET truncated == SubSeq(m.history, 1, m.history_index + 1)
  IN  IF truncated = <<>> \/ truncated[Len(truncated)] # path
      THEN [m EXCEPT !.history = Append(truncated, path), !.history_index = Len(truncated)]
      ELSE [m EXCEPT !.history = truncated]

\* mutant: the is_dir check is missing
NavigateTo_NoDirCheck(m, path, order, watch_ok) ==
  IF ~Exists(path) THEN Err(m)
  ELSE LET r == RefreshItems(NavUpdateHistory(NavSetPath(m, path), path), order)
       IN  IF ~r.ok THEN r ELSE SetupWatcher(r.fm, path, watch_ok)

\* FileManager::navigate_to
NavigateTo(m, path, order, watch_ok) ==
  IF ~Exists(path) THEN Err(m)
  ELSE IF ~IsDir(path) THEN Err(m)
  ELSE LET r == RefreshItems(NavUpdateHistory(NavSetPath(m, path), path), order)
       IN  IF ~r.ok THEN r ELSE SetupWatcher(r.fm, path, watch_ok)

\* mutant: back returns to the first entry of the history
GoBack_ToStart(m, order) ==
  IF m.history_index > 0
  THEN RefreshItems([m EXCEPT !.history_index = 0, !.current_path = m.history[1]], order)
  ELSE Ok(m)

\* FileManager::go_back
GoBack(m, order) ==
  IF m.history_index > 0
  THEN RefreshItems([m EXCEPT !.history_index = m.history_index - 1,
                              !.current_path = m.history[m.history_index]], order)
  ELSE Ok(m)

\* mutant: forward refreshes even when there is nothing to go forward to
GoForward_AlwaysRefresh(m, order) ==
  IF m.history_index < Len(m.history) - 1
  THEN RefreshItems([m EXCEPT !.history_index = m.history_index + 1,
                              !.current_path = m.history[m.history_index + 2]], order)
  ELSE RefreshItems(m, order)

\* mutant: forward moves the cursor and leaves the path where it was
GoForward_CursorOnly(m, order) ==
  IF m.history_index < Len(m.history) - 1
  THEN RefreshItems([m EXCEPT !.history_index = m.history_index + 1], order)
  ELSE Ok(m)

\* FileManager::go_forward
GoForward(m, order) ==
  IF m.history_index < Len(m.history) - 1
  THEN RefreshItems([m EXCEPT !.history_index = m.history_index + 1,
                              !.current_path = m.history[m.history_index + 2]], order)
  ELSE Ok(m)

\* mutant: go_up moves to the parent as go_back moves, leaving the history alone
GoUp_NoHistory(m, order, watch_ok) ==
  IF Parent(m.current_path) # None
  THEN RefreshItems(NavSetPath(m, Parent(m.current_path)), order)
  ELSE Ok(m)

\* FileManager::go_up
GoUp(m, order, watch_ok) ==
  IF Parent(m.current_path) # None
  THEN NavigateTo(m, Parent(m.current_path), order, watch_ok)
  ELSE Ok(m)

\* FileManager::set_sort
SetSort(m, sort_by, sort_order, order) ==
  RefreshItems([m EXCEPT !.sort_by = sort_by, !.sort_order = sort_order], order)

\* mutant: the flag is set instead of flipped
ToggleShowHidden_SetTrue(m, order) ==
  RefreshItems([m EXCEPT !.show_hidden = TRUE], order)

\* FileManager::toggle_show_hidden
ToggleShowHidden(m, order) ==
  RefreshItems([m EXCEPT !.show_hidden = ~m.show_hidden], order)

\* mutant: an index past the end of the snapshot is ignored
SelectItem_InRange(m, index, multiple) ==
  IF index >= Len(m.items) THEN m
  ELSE IF multiple
  THEN IF \E k \in 1..Len(m.selected_items) : m.selected_items[k] = index
       THEN [m EXCEPT !.selected_items = SelectSeq(m.selected_items, LAMBDA x : x # index)]
       ELSE [m EXCEPT !.selected_items = Append(m.selected_items, index)]
  ELSE [m EXCEPT !.selected_items = <<index>>]

\* FileManager::select_item
SelectItem(m, index, multiple) ==
  IF multiple
  THEN IF \E k \in 1..Len(m.selected_items) : m.selected_items[k] = index
       THEN [m EXCEPT !.selected_items = SelectSeq(m.selected_items, LAMBDA x : x # index)]
       ELSE [m EXCEPT !.selected_items = Append(m.selected_items, index)]
  ELSE [m EXCEPT !.selected_items = <<index>>]

\* mutant: select_all extends the selection without clearing it first
SelectAll_NoClear(m) ==
  [m EXCEPT !.selected_items = @ \o [k \in 1..Len(m.items) |-> k - 1]]

\* FileManager::select_all
SelectAll(m) == [m EXCEPT !.selected_items = [k \in 1..Len(m.items) |-> k - 1]]

\* FileManager::clear_selection
ClearSelection(m) == [m EXCEPT !.selected_items = <<>>]

\* mutant: one try_recv instead of the loop
CheckFileChanges_OneResult(m) ==
  IF m.watcher_rx = <<>> THEN [events |-> <<>>, fm |-> m]
  ELSE [events |-> SelectSeq(<<m.watcher_rx[1]>>, LAMBDA x : x = "event"),
        fm |-> [m EXCEPT !.watcher_rx = Tail(m.watcher_rx)]]

\* FileManager::check_file_changes: try_recv until the channel is empty; the
\* Ok results are the events returned, the Err results are dropped
CheckFileChanges(m) ==
  [events |-> SelectSeq(m.watcher_rx, LAMBDA x : x = "event"),
   fm |-> [m EXCEPT !.watcher_rx = <<>>]]

\* FileManager::can_go_back
CanGoBack(m) == m.history_index > 0

\* FileManager::can_go_forward
CanGoForward(m) == m.history_index < Len(m.history) - 1

\* ------------------------------------------------------------ the session

\* the tasks runtime.spawn started, and the UI thread (which takes the lock in
\* runtime.block_on to read what it renders)
Tasks == 1..MaxTasks
UiThread == 0
Threads == Tasks \cup {UiThread}

\* the holder of the Arc<Mutex<FileManager>>: a thread, or Free
Free == -1

\* what a task carries: the method it calls and its path argument
Job(op, arg) == [op |-> op, arg |-> arg]
NoJob == Job("none", None)

\* the last call: its name, its path argument (None when it takes none; for
\* handle_file_system_events the results its drain found queued), whether it
\* returned Ok, and the history cursor and length it found
Called(op, arg, ok, index, len) ==
  [op |-> op, arg |-> arg, ok |-> ok, index |-> index, len |-> len]

\* The calls made in a row that form a round trip through the history:
\* stage 1 after navigate_to(a), 2 after navigate_to(a); navigate_to(b), 3 after
\* a go_back that followed, 4 after a go_forward that followed (a and b existing
\* directories); oks: whether each of these calls returned Ok.  Stage 0: the
\* last calls form none of these; -1: not followed.
Trip(stage, a, b, oks) == [stage |-> stage, a |-> a, b |-> b, oks |-> oks]

\* the round trip after one more call
Track(t, op, arg, ok) ==
  IF t.stage = -1 THEN t
  ELSE IF op = "navigate_to" /\ IsDir(arg)
       THEN IF t.stage = 1 THEN Trip(2, t.a, arg, Append(t.oks, ok))
            ELSE IF t.stage = 2 THEN Trip(2, t.b, arg, <<t.oks[2], ok>>)
            ELSE Trip(1, arg, None, <<ok>>)
  ELSE IF op = "go_back" /\ t.stage = 2 THEN Trip(3, t.a, t.b, Append(t.oks, ok))
  ELSE IF op = "go_forward" /\ t.stage = 3 THEN Trip(4, t.a, t.b, Append(t.oks, ok))
  ELSE Trip(0, None, None, <<>>)

\* every call of the round trip returned Ok
AllOk(t) == \A i \in 1..Len(t.oks) : t.oks[i]

\* the snapshot of m is a listing of its current path under its settings
Fresh(m) ==
  /\ ReadDirOk(m.current_path)
  /\ \E order \in ReadDirOrders[m.current_path] :
       m.items = SnapshotTable[<<order, m.show_hidden, m.sort_by, m.sort_order>>]

\* The calls made in a row that toggle show_hidden on and off again: stage 11
\* after a toggle_show_hidden that found the flag false, 12 after the next call
\* when it is a toggle_show_hidden too; a: the snapshot before the first
\* toggle, b: the snapshot after it; oks: whether a was a listing of the
\* current path.  Stage 10: no such calls were made last.  m is the struct
\* the call found and n the struct it left.
TrackToggle(t, op, m, n) ==
  IF op # "toggle_show_hidden" THEN Trip(10, None, None, <<>>)
  ELSE IF ~m.show_hidden THEN Trip(11, m.items, n.items, <<Fresh(m)>>)
  ELSE IF t.stage = 11 THEN Trip(12, t.a, t.b, t.oks)
  ELSE Trip(10, None, None, <<>>)

Init ==
  /\ fm = New
  /\ last = Called("new", None, TRUE, 0, 1)
  /\ trip = Trip(-1, None, None, <<>>)
  /\ lock = Free
  /\ pc = [t \in Threads |-> "idle"]
  /\ job = [t \in Tasks |-> NoJob]
  /\ Idle

\* a call ran to its end under the session lock and left r
Return(r, op, arg) ==
  /\ fm' = r.fm
  /\ last' = Called(op, arg, r.ok, fm.history_index, Len(fm.history))
  /\ trip' = IF trip.stage >= 10 THEN TrackToggle(trip, op, fm, r.fm)
              ELSE Track(trip, op, arg, r.ok)
  /\ UNCHANGED <<lock, pc, job, disk, run, events>>

\* navigate_to(path): the address bar, a bookmark, a double click, Home
Navigate(path) ==
  \E r \in {NavigateTo(fm, path, order, watch_ok) : order \in OrdersOf(fm, path), watch_ok \in BOOLEAN} :
    /\ Len(r.fm.history) <= MaxHistory
    /\ Return(r, "navigate_to", path)

\* go_back(): the Back button, Alt+Left
Back ==
  \E r \in {GoBack(fm, order) :
            order \in OrdersOf(fm, IF CanGoBack(fm) THEN fm.history[fm.history_index] ELSE None)} :
    Return(r, "go_back", None)

\* go_forward(): the Forward button, Alt+Right
Forward ==
  \E r \in {GoForward(fm, order) :
            order \in OrdersOf(fm, IF CanGoForward(fm) THEN fm.history[fm.history_index + 2]
                               ELSE fm.current_path)} :
    Return(r, "go_forward", None)

\* go_up(): the Up button, Alt+Up
Up ==
  \E r \in {GoUp(fm, order, watch_ok) :
            order \in OrdersOf(fm, Parent(fm.current_path)), watch_ok \in BOOLEAN} :
    /\ Len(r.fm.history) <= MaxHistory
    /\ Return(r, "go_up", None)

\* refresh_items(): the Refresh button, F5
Refresh ==
  \E r \in {RefreshItems(fm, order) : order \in OrdersOf(fm, fm.current_path)} :
    Return(r, "refresh_items", None)

\* set_sort(sort_by, sort_order): FileBrowser::update_sort
Sort(sort_by, sort_order) ==
  \E r \in {SetSort(fm, sort_by, sort_order, order) :
            order \in OrdersOf([fm EXCEPT !.sort_by = sort_by, !.sort_order = sort_order], fm.current_path)} :
    Return(r, "set_sort", None)

\* toggle_show_hidden(): the eye button, Ctrl+H
ToggleHidden ==
  \E r \in {ToggleShowHidden(fm, order) :
            order \in OrdersOf([fm EXCEPT !.show_hidden = ~fm.show_hidden], fm.current_path)} :
    Return(r, "toggle_show_hidden", None)

\* select_item(index, multiple): a click on a row, with or without Ctrl
Select(index, multiple) ==
  Return(Ok(SelectItem(fm, index, multiple)), "select_item", None)

\* select_all(): Ctrl+A
SelectAllRows == Return(Ok(SelectAll(fm)), "select_all", None)

\* clear_selection(): Escape
ClearSelected == Return(Ok(ClearSelection(fm)), "clear_selection", None)

\* ChexExplorerApp::handle_file_system_events: drain the watcher channel and
\* refresh when it held an event (an error of that refresh is only logged)
HandleFileSystemEvents ==
  LET c == CheckFileChanges(fm)
  IN  IF c.events # <<>>
      THEN \E r \in {RefreshItems(c.fm, order) : order \in OrdersOf(fm, fm.current_path)} :
             Return(r, "handle_events", fm.watcher_rx)
      ELSE Return(Ok(c.fm), "handle_events", fm.watcher_rx)

\* the notify callback: the OS reports a change under the watched directory
\* and the closure sends it into the channel
Notify(result, most) ==
  /\ fm.watcher # None
  /\ Len(fm.watcher_rx) < most
  /\ Return(Ok([fm EXCEPT !.watcher_rx = Append(fm.watcher_rx, result)]), "notify", None)

\* a change event is queued (the results queued in Spec are change events;
\* SpecWatch follows the error results too)
WatcherEvent == Notify("event", MaxEvents)

Next ==
  \/ \E path \in NavTargets : Navigate(path)
  \/ Back
  \/ Forward
  \/ Up
  \/ Refresh
  \/ \E choice \in SortChoices : Sort(choice[1], choice[2])
  \/ ToggleHidden
  \/ \E index \in ClickRows, multiple \in BOOLEAN : Select(index, multiple)
  \/ SelectAllRows
  \/ ClearSelected
  \/ HandleFileSystemEvents
  \/ WatcherEvent

Spec == Init /\ [][Next]_vars

\* The navigation calls alone, with the round trips they form followed.
InitTrip ==
  /\ fm = New
  /\ last = Called("new", None, TRUE, 0, 1)
  /\ trip = Trip(0, None, None, <<>>)
  /\ lock = Free
  /\ pc = [t \in Threads |-> "idle"]
  /\ job = [t \in Tasks |-> NoJob]
  /\ Idle

NextTrip ==
  \/ \E path \in NavTargets : Navigate(path)
  \/ Back
  \/ Forward
  \/ Up
  \/ Refresh

SpecTrip == InitTrip /\ [][NextTrip]_vars

\* the session with the calls that toggle show_hidden followed
InitToggle ==
  /\ fm = New
  /\ last = Called("new", None, TRUE, 0, 1)
  /\ trip = Trip(10, None, None, <<>>)
  /\ lock = Free
  /\ pc = [t \in Threads |-> "idle"]
  /\ job = [t \in Tasks |-> NoJob]
  /\ Idle

NextToggle ==
  \/ \E path \in NavTargets : Navigate(path)
  \/ Back
  \/ \E choice \in SortChoices : Sort(choice[1], choice[2])
  \/ ToggleHidden

SpecToggle == InitToggle /\ [][NextToggle]_vars

\* refresh_items() where the ReadDir iterator may yield an Err; last.arg keeps
\* what the iterator yielded
RefreshListing ==
  \E order \in ReadDirResults(fm.current_path) :
    Return(RefreshItems(fm, order), "refresh_items", order)

\* the session with the failures of a listing followed (in Spec every item of
\* the ReadDir iterator is a DirEntry)
NextList ==
  \/ \E path \in Dirs : Navigate(path)
  \/ ToggleHidden
  \/ \E choice \in SortChoices : Sort(choice[1], choice[2])
  \/ \E index \in ClickRows : Select(index, FALSE)
  \/ RefreshListing

SpecList == Init /\ [][NextList]_vars

\* the watcher and its channel, with the error results notify may deliver
QueueEvent == Notify("event", MaxQueue)
QueueError == Notify("error", MaxQueue)

NextWatch ==
  \/ \E path \in NavTargets : Navigate(path)
  \/ Back
  \/ \E index \in ClickRows, multiple \in BOOLEAN : Select(index, multiple)
  \/ HandleFileSystemEvents
  \/ QueueEvent
  \/ QueueError

SpecWatch == Init /\ [][NextWatch]_vars

\* ------------------------------------- the listing, from read_dir to sort
\* refresh_items between its loop over the entries and its call of sort_items:
\* the Vec `items` holds what the loop kept of a directory content, for every
\* content, every setting of show_hidden and every sort policy.

\* everything read_dir can yield
Entries == {p \in DOMAIN Fs : Parent(p) # None}

\* the contents a directory may have, as read_dir yields them: up to MaxLen
\* different entries in any order
Contents ==
  UNION {{s \in [1..n -> Entries] : \A i, j \in 1..n : i # j => s[i] # s[j]} : n \in 0..MaxLen}

InitSort ==
  /\ \E content \in Contents, show_hidden \in BOOLEAN, sort_by \in SortKeys, sort_order \in SortOrders :
       fm = [New EXCEPT !.items = ListItems(content, show_hidden), !.show_hidden = show_hidden,
                        !.sort_by = sort_by, !.sort_order = sort_order]
  /\ last = Called("new", None, TRUE, 0, 1)
  /\ trip = Trip(-1, None, None, <<>>)
  /\ lock = Free
  /\ pc = [t \in Threads |-> "idle"]
  /\ job = [t \in Tasks |-> NoJob]
  /\ Idle

\* FileItem::sort_items(&mut items, sort_by, sort_order), called once on the
\* list; last.arg keeps the list it was given
SortListing ==
  /\ last.op = "new"
  /\ fm' = [fm EXCEPT !.items = SortItems(fm.items, fm.sort_by, fm.sort_order)]
  /\ last' = Called("sort_items", fm.items, TRUE, 0, 1)
  /\ UNCHANGED <<trip, lock, pc, job, disk, run, events>>

NextSort == SortListing

SpecSort == InitSort /\ [][NextSort]_vars

\* ------------------------------------------------- the tasks of ui/*.rs
\* Every intent is a task: runtime.spawn(async move { let mut fm =
\* file_manager.lock().await; fm.<method>(..).await }).  The task holds the guard
\* until its block ends, and the method runs block by block in between.

\* the intents the tasks carry
TaskIntents ==
  {Job("navigate_to", Root), Job("navigate_to", PrivDir), Job("navigate_to", TxtPath),
   Job("go_back", None), Job("go_forward", None), Job("go_up", None),
   Job("refresh_items", None), Job("set_sort", None), Job("toggle_show_hidden", None)}

\* the sort a set_sort task carries
TaskSort == <<"Type", "Descending">>

\* the blocks of a method, in the order it runs them
Blocks == {"start", "set_path", "history", "refresh", "watcher", "install"}

\* mutant: the lock is granted whoever holds it
CanLock_Always(holder) == TRUE

\* tokio Mutex::lock().await completes: nobody holds the guard
CanLock(holder) == holder = Free

\* runtime.spawn: the task exists and waits for the lock
Spawn(t) ==
  /\ pc[t] = "idle"
  /\ pc' = [pc EXCEPT ![t] = "waiting"]
  /\ UNCHANGED <<fm, last, trip, lock, job, disk, run, events>>

\* the path a navigate_to or go_up intent would push, None for the others
Pushed(intent) ==
  IF intent.op = "navigate_to" /\ IsDir(intent.arg) THEN intent.arg
  ELSE IF intent.op = "go_up" THEN Parent(fm.current_path)
  ELSE None

\* file_manager.lock().await returns in task t, which carries `intent`
Acquire(t, intent) ==
  /\ pc[t] = "waiting"
  /\ CanLock(lock)
  /\ Pushed(intent) # None =>
       Len(NavUpdateHistory(fm, Pushed(intent)).history) <= MaxHistory
  /\ lock' = t
  /\ pc' = [pc EXCEPT ![t] = "start"]
  /\ job' = [job EXCEPT ![t] = intent]
  /\ UNCHANGED <<fm, last, trip, disk, run, events>>

\* the method returned and the guard is dropped
Finish(t) ==
  /\ lock' = Free
  /\ pc' = [pc EXCEPT ![t] = "idle"]
  /\ job' = [job EXCEPT ![t] = NoJob]

\* the method goes on to its next block
Goto(t, block, arg) ==
  /\ pc' = [pc EXCEPT ![t] = block]
  /\ job' = [job EXCEPT ![t].arg = arg]
  /\ UNCHANGED lock

\* the first block of each method: the checks of navigate_to, the parent of
\* go_up, the cursor move of go_back and go_forward, the field updates of
\* set_sort and toggle_show_hidden
Start(t) ==
  /\ pc[t] = "start"
  /\ UNCHANGED <<last, trip, disk, run, events>>
  /\ LET op == job[t].op
         arg == job[t].arg
     IN  CASE op = "navigate_to" ->
                IF ~Exists(arg) \/ ~IsDir(arg)
                THEN Finish(t) /\ UNCHANGED fm
                ELSE Goto(t, "set_path", arg) /\ UNCHANGED fm
           [] op = "go_up" ->
                IF Parent(fm.current_path) = None
                THEN Finish(t) /\ UNCHANGED fm
                ELSE IF ~Exists(Parent(fm.current_path)) \/ ~IsDir(Parent(fm.current_path))
                THEN Finish(t) /\ UNCHANGED fm
                ELSE Goto(t, "set_path", Parent(fm.current_path)) /\ UNCHANGED fm
           [] op = "go_back" ->
                IF fm.history_index > 0
                THEN /\ fm' = [fm EXCEPT !.history_index = fm.history_index - 1]
                     /\ Goto(t, "set_path", fm.history[fm.history_index])
                ELSE Finish(t) /\ UNCHANGED fm
           [] op = "go_forward" ->
                IF fm.history_index < Len(fm.history) - 1
                THEN /\ fm' = [fm EXCEPT !.history_index = fm.history_index + 1]
                     /\ Goto(t, "set_path", fm.history[fm.history_index + 2])
                ELSE Finish(t) /\ UNCHANGED fm
           [] op = "refresh_items" ->
                Goto(t, "refresh", arg) /\ UNCHANGED fm
           [] op = "set_sort" ->
                /\ fm' = [fm EXCEPT !.sort_by = TaskSort[1], !.sort_order = TaskSort[2]]
                /\ Goto(t, "refresh", arg)
           [] op = "toggle_show_hidden" ->
                /\ fm' = [fm EXCEPT !.show_hidden = ~fm.show_hidden]
                /\ Goto(t, "refresh", arg)

\* "Update current path", in navigate_to, go_back and go_forward
SetPath(t) ==
  /\ pc[t] = "set_path"
  /\ fm' = NavSetPath(fm, job[t].arg)
  /\ Goto(t, IF job[t].op \in {"navigate_to", "go_up"} THEN "history" ELSE "refresh", job[t].arg)
  /\ UNCHANGED <<last, trip, disk, run, events>>

\* "Update history", in navigate_to
History(t) ==
  /\ pc[t] = "history"
  /\ fm' = NavUpdateHistory(fm, job[t].arg)
  /\ Goto(t, "refresh", job[t].arg)
  /\ UNCHANGED <<last, trip, disk, run, events>>

\* self.refresh_items().await, the last call of every method but navigate_to
RefreshBlock(t) ==
  /\ pc[t] = "refresh"
  /\ \E r \in {RefreshItems(fm, order) : order \in OrdersOf(fm, fm.current_path)} :
       /\ fm' = r.fm
       /\ IF r.ok /\ job[t].op \in {"navigate_to", "go_up"}
          THEN Goto(t, "watcher", job[t].arg)
          ELSE Finish(t)
  /\ UNCHANGED <<last, trip, disk, run, events>>

\* self.setup_watcher(path), in navigate_to, up to watcher.watch(path, ..)?:
\* the new channel and the new watcher exist in locals while self.watcher
\* still holds the previous one; a failure returns with the locals dropped
WatcherBlock(t) ==
  /\ pc[t] = "watcher"
  /\ \E watch_ok \in BOOLEAN :
       IF SetupWatcher(fm, job[t].arg, watch_ok).ok
       THEN Goto(t, "install", job[t].arg)
       ELSE Finish(t)
  /\ UNCHANGED <<fm, last, trip, disk, run, events>>

\* the end of setup_watcher: self.watcher = Some(watcher) and self.watcher_rx =
\* Some(rx), which drop the previous watcher and its channel
InstallBlock(t) ==
  /\ pc[t] = "install"
  /\ fm' = SetupWatcher(fm, job[t].arg, TRUE).fm
  /\ Finish(t)
  /\ UNCHANGED <<last, trip, disk, run, events>>

\* the watchers (OS watch handle and event queue) alive: the one the struct
\* holds, and the one a setup_watcher in progress holds in its locals
LiveWatchers ==
  (IF fm.watcher # None THEN 1 ELSE 0) + Cardinality({t \in Tasks : pc[t] = "install"})

\* runtime.block_on(async { self.file_manager.lock().await.get_..().await }):
\* the UI thread takes the lock to read one field of the session
UiLock ==
  /\ pc[UiThread] = "idle"
  /\ CanLock(lock)
  /\ lock' = UiThread
  /\ pc' = [pc EXCEPT ![UiThread] = "reading"]
  /\ UNCHANGED <<fm, last, trip, job, disk, run, events>>

\* the getter returned its clone and the guard is dropped
UiUnlock ==
  /\ pc[UiThread] = "reading"
  /\ lock' = Free
  /\ pc' = [pc EXCEPT ![UiThread] = "idle"]
  /\ UNCHANGED <<fm, last, trip, job, disk, run, events>>

NextTasks ==
  \/ \E t \in Tasks : Spawn(t)
  \/ \E t \in Tasks, intent \in TaskIntents : Acquire(t, intent)
  \/ \E t \in Tasks : Start(t)
  \/ \E t \in Tasks : SetPath(t)
  \/ \E t \in Tasks : History(t)
  \/ \E t \in Tasks : RefreshBlock(t)
  \/ \E t \in Tasks : WatcherBlock(t)
  \/ \E t \in Tasks : InstallBlock(t)
  \/ UiLock
  \/ UiUnlock

SpecTasks == Init /\ [][NextTasks]_vars

\* ------------------------------------------------------------------ claims

\* the entries navigate_to keeps: those up to the cursor
Kept(m) == SubSeq(m.history, 1, m.history_index + 1)

\* C1: navigate(P), P an existing directory whose listing succeeds, leaves
\* current path = P, history = the old history cut after the cursor and then P
\* unless P is the last entry kept, the cursor on the last entry, and an empty
\* selection.
C1_NavigateEffect ==
  [][(last'.op = "navigate_to" /\ ReadDirOk(last'.arg)) =>
       /\ fm'.current_path = last'.arg
       /\ fm'.history = IF Kept(fm)[Len(Kept(fm))] = last'.arg
                        THEN Kept(fm) ELSE Append(Kept(fm), last'.arg)
       /\ fm'.history_index = Len(fm'.history) - 1
       /\ fm'.selected_items = <<>>]_vars

\* C1 happens: a navigate to a listable directory returned, having found the
\* cursor before the end of the history, and left the history cut after that
\* cursor with the new path appended
C1_Witness ==
  /\ last.op = "navigate_to" /\ ReadDirOk(last.arg)
  /\ last.index < last.len - 1
  /\ fm.current_path = last.arg /\ Len(fm.history) = last.index + 2

\* C2: after any sequence of calls, failed ones included, the history is
\* non-empty and 0 <= cursor < history.length.
C2_CursorInBounds ==
  /\ Len(fm.history) >= 1
  /\ fm.history_index >= 0
  /\ fm.history_index < Len(fm.history)

\* C2 happens: a call failed and left the cursor in the middle of the history
C2_Witness == ~last.ok /\ fm.history_index > 0 /\ fm.history_index < Len(fm.history) - 1

\* C3 as claimed: for any existing directories A and B and any starting
\* state, navigate(A); navigate(B); go_back() leaves current path = A, and a
\* go_forward() right after leaves current path = B (read on the round trips
\* whose calls all returned Ok).
C3_RoundTrip ==
  /\ (trip.stage = 3 /\ AllOk(trip)) => fm.current_path = trip.a
  /\ (trip.stage = 4 /\ AllOk(trip)) => fm.current_path = trip.b

\* C3 amended: for any two different existing directories A and B,
\* navigate(A); navigate(B); go_back() leaves current path = A and a
\* go_forward() right after leaves current path = B, whatever the calls returned.
C3_RoundTripDistinct ==
  /\ (trip.stage = 3 /\ trip.a # trip.b) => fm.current_path = trip.a
  /\ (trip.stage = 4 /\ trip.a # trip.b) => fm.current_path = trip.b

\* C3 happens: the four calls were made and returned Ok, with A and B
\* different, A not the directory the session started in, and both go_back
\* and go_forward moving inside a history of three entries
C3_Witness ==
  /\ trip.stage = 4 /\ AllOk(trip) /\ trip.a # trip.b
  /\ fm.history[1] # trip.a /\ Len(fm.history) = 3
  /\ fm.current_path = trip.b

\* C4: a navigate that succeeds while the cursor is not at the end of the
\* history leaves none of the entries that were beyond the cursor: the history
\* is the entries up to the old cursor and at most the new path, the cursor is
\* on the last entry and go_forward() is a no-op.
C4_ForwardDiscarded ==
  [][(last'.op = "navigate_to" /\ last'.ok /\ fm.history_index < Len(fm.history) - 1) =>
       /\ Len(fm'.history) <= fm.history_index + 2
       /\ SubSeq(fm'.history, 1, fm.history_index + 1) = Kept(fm)
       /\ fm'.history_index = Len(fm'.history) - 1
       /\ ~CanGoForward(fm')
       /\ \A order \in OrdersOf(fm', fm'.current_path) : GoForward(fm', order) = Ok(fm')]_vars

\* C4 happens: a navigate succeeded from the first of three history entries
C4_Witness ==
  /\ last.op = "navigate_to" /\ last.ok
  /\ last.index = 0 /\ last.len = 3
  /\ Len(fm.history) = 2 /\ fm.history_index = 1

\* C5: go_back() with cursor > 0 moves the cursor back by exactly one and
\* go_forward() with cursor < history.length-1 forward by exactly one; in both
\* cases current path becomes history[cursor] and the history is unchanged.
C5_BackForwardMoveByOne ==
  [][/\ (last'.op = "go_back" /\ fm.history_index > 0) =>
          /\ fm'.history_index = fm.history_index - 1
          /\ fm'.current_path = fm'.history[fm'.history_index + 1]
          /\ fm'.history = fm.history
     /\ (last'.op = "go_forward" /\ fm.history_index < Len(fm.history) - 1) =>
          /\ fm'.history_index = fm.history_index + 1
          /\ fm'.current_path = fm'.history[fm'.history_index + 1]
          /\ fm'.history = fm.history]_vars

\* C5 happens: go_forward moved the cursor from the first of three entries
\* (which two go_back calls had reached)
C5_Witness ==
  /\ last.op = "go_forward" /\ last.index = 0 /\ last.len = 3
  /\ fm.history_index = 1 /\ fm.current_path = fm.history[2]

\* C6: go_back() with cursor = 0 and go_forward() with cursor =
\* history.length-1 return success and leave the whole state as it was.
C6_BackForwardNoOp ==
  [][/\ (last'.op = "go_back" /\ fm.history_index = 0) => (last'.ok /\ fm' = fm)
     /\ (last'.op = "go_forward" /\ fm.history_index = Len(fm.history) - 1) =>
          (last'.ok /\ fm' = fm)]_vars

\* C6 happens: go_forward was called at the end of the history and a
\* selection and a snapshot are still there
C6_Witness ==
  /\ last.op = "go_forward" /\ last.index = last.len - 1 /\ last.ok
  /\ fm.selected_items # <<>> /\ fm.items # <<>>

\* C7: navigate(P) with P missing or not a directory returns an error and
\* leaves current path, history, cursor, snapshot, selection and watcher as
\* they were.
C7_NavigateRejects ==
  [][(last'.op = "navigate_to" /\ ~IsDir(last'.arg)) => (~last'.ok /\ fm' = fm)]_vars

\* C7 happens: a navigate to a regular file was refused in a session that has
\* a snapshot, a selection and a watcher
C7_Witness ==
  /\ last.op = "navigate_to" /\ last.arg = TxtPath /\ ~last.ok
  /\ fm.items # <<>> /\ fm.selected_items # <<>> /\ fm.watcher # None

\* C8: concurrently spawned navigation intents are serialized.  A task is
\* inside its method only while it holds the session lock, so no two methods
\* interleave; and while the UI thread holds the lock to read, no task is
\* inside a method and the state read is not a half-made update: the current
\* path is the history entry under the cursor.
C8_Serialized ==
  /\ \A t \in Tasks : pc[t] \in Blocks => lock = t
  /\ \A t, u \in Tasks : (pc[t] \in Blocks /\ pc[u] \in Blocks) => t = u
  /\ pc[UiThread] = "reading" =>
       /\ lock = UiThread
       /\ \A t \in Tasks : pc[t] \notin Blocks
       /\ fm.current_path = fm.history[fm.history_index + 1]

\* C8 happens: a task is between "Update current path" and "Update history"
\* of navigate_to (current path is not yet the entry under the cursor) while
\* another task waits for the lock and the UI thread is not reading
C8_Witness ==
  \E t, u \in Tasks :
    /\ pc[t] = "history" /\ pc[u] = "waiting" /\ pc[UiThread] = "idle"
    /\ fm.current_path # fm.history[fm.history_index + 1]

\* C9: between calls, failed ones included, every entry of the snapshot is an
\* immediate child of the current path.
C9_SnapshotOfCurrentPath ==
  \A i \in 1..Len(fm.items) : Parent(fm.items[i].path) = fm.current_path

\* C10: a navigate whose watcher cannot be installed still returns success.
\* Stated on the calls that reach setup_watcher: a navigate to a directory that
\* exists and whose listing succeeds returns Ok whatever setup_watcher did.
C10_NavigateSurvivesWatcherFailure ==
  (last.op = "navigate_to" /\ ReadDirOk(last.arg)) => last.ok

\* C11: after every successful call that changes the current path (navigate,
\* go_up, go_back, go_forward) the directory under watch is the current path.
C11_WatchedIsCurrent ==
  [][(/\ last'.op \in {"navigate_to", "go_up", "go_back", "go_forward"}
      /\ last'.ok
      /\ fm'.current_path # fm.current_path) =>
       fm'.watcher = fm'.current_path]_vars

\* C12: at most one watcher (watch handle with its event queue) exists at any
\* instant: the previous one is disposed before navigate creates the new one.
C12_OneWatcher == LiveWatchers <= 1

\* C13: a drain of the watcher queue never blocks (the step is enabled in
\* every state) and removes every result queued; when it found at least one
\* event the current directory is refreshed within the same call (a new snapshot
\* of the current path and an empty selection, or the failure of its listing),
\* and when it found none nothing but the queue changes.
C13_DrainThenRefresh ==
  /\ [](ENABLED HandleFileSystemEvents)
  /\ [][last'.op = "handle_events" =>
         /\ fm'.watcher_rx = <<>>
         /\ (\E k \in 1..Len(fm.watcher_rx) : fm.watcher_rx[k] = "event") =>
              IF ReadDirOk(fm.current_path)
              THEN /\ last'.ok
                   /\ fm'.selected_items = <<>>
                   /\ \E order \in ReadDirOrders[fm.current_path] :
                        fm'.items = Snapshot(order, fm.show_hidden, fm.sort_by, fm.sort_order)
                   /\ \A i \in 1..Len(fm'.items) : Parent(fm'.items[i].path) = fm.current_path
              ELSE ~last'.ok
         /\ (\A k \in 1..Len(fm.watcher_rx) : fm.watcher_rx[k] # "event") =>
              (last'.ok /\ fm' = [fm EXCEPT !.watcher_rx = <<>>])]_vars

\* C13 happens: a drain found an error result and then an event, emptied the
\* queue and left a snapshot of the current directory and no selection
C13_Witness ==
  /\ last.op = "handle_events" /\ last.arg = <<"error", "event">> /\ last.ok
  /\ fm.watcher_rx = <<>> /\ fm.items # <<>> /\ fm.selected_items = <<>>
  /\ \A i \in 1..Len(fm.items) : Parent(fm.items[i].path) = fm.current_path

\* C14: right after every successful call that replaces the snapshot
\* (navigate, go_up with a parent, a go_back or go_forward that moves the cursor,
\* refresh, set_sort, toggle_hidden, a drain that found an event) the selection
\* is empty.
C14_SelectionCleared ==
  [][(/\ last'.ok
      /\ \/ last'.op \in {"navigate_to", "refresh_items", "set_sort", "toggle_show_hidden"}
         \/ last'.op = "go_up" /\ Parent(fm.current_path) # None
         \/ last'.op = "go_back" /\ fm.history_index > 0
         \/ last'.op = "go_forward" /\ fm.history_index < Len(fm.history) - 1
         \/ last'.op = "handle_events" /\ \E k \in 1..Len(fm.watcher_rx) : fm.watcher_rx[k] = "event") =>
       fm'.selected_items = <<>>]_vars

\* C14 happens: a drain that found an event rebuilt a snapshot of several
\* entries and left no selection
C14_Witness ==
  /\ last.op = "handle_events" /\ last.arg = <<"event">> /\ last.ok
  /\ Len(fm.items) > 1 /\ fm.selected_items = <<>>

\* C15: refresh(), whether it succeeds or fails, changes neither the history,
\* the cursor, the current path, the sort key and direction nor the
\* show-hidden flag.
C15_RefreshFrame ==
  [][last'.op = "refresh_items" =>
       /\ fm'.history = fm.history
       /\ fm'.history_index = fm.history_index
       /\ fm'.current_path = fm.current_path
       /\ fm'.sort_by = fm.sort_by
       /\ fm'.sort_order = fm.sort_order
       /\ fm'.show_hidden = fm.show_hidden]_vars

\* C15 happens: a refresh succeeded in a session whose cursor is inside a
\* history of three entries and whose settings are not the initial ones
C15_Witness ==
  /\ last.op = "refresh_items" /\ last.ok
  /\ Len(fm.history) = 3 /\ fm.history_index = 1
  /\ fm.sort_by = "Type" /\ fm.sort_order = "Descending" /\ fm.show_hidden
  /\ fm.items # <<>>

\* the indices a selection holds
Selected(m) == {m.selected_items[k] : k \in 1..Len(m.selected_items)}

\* C16: for every index i, past the end of the snapshot or not, select(i,
\* additive=false) leaves selection = {i}; select(i, additive=true) removes i
\* if it was selected and adds it otherwise, every other selected index staying
\* as it was; neither fails nor changes anything else.  Read in every state
\* the session reaches, for every row a click may carry.
C16_SelectEffect ==
  \A i \in ClickRows :
    LET one == SelectItem(fm, i, FALSE)
        tog == SelectItem(fm, i, TRUE)
    IN  /\ one = [fm EXCEPT !.selected_items = <<i>>]
        /\ tog = [fm EXCEPT !.selected_items = tog.selected_items]
        /\ Selected(tog) = IF i \in Selected(fm) THEN Selected(fm) \ {i}
                           ELSE Selected(fm) \cup {i}
        /\ SelectSeq(tog.selected_items, LAMBDA x : x # i)
             = SelectSeq(fm.selected_items, LAMBDA x : x # i)
        /\ Len(tog.selected_items) = Cardinality(Selected(tog))

\* C16 happens: select calls left two rows selected, one of them past the end
\* of a snapshot of one entry
C16_Witness ==
  /\ last.op = "select_item" /\ last.ok
  /\ Len(fm.items) = 1 /\ fm.selected_items = <<0, 1>>

\* C17: go_up() on a path without parent returns success and changes nothing;
\* otherwise it returns what navigate(parent) returns and leaves the state that
\* navigate(parent) leaves: current path = parent, the history cut after the
\* cursor with the parent pushed (unless it is the entry under the cursor),
\* the cursor on the last entry, selection empty.
C17_GoUpIsNavigateToParent ==
  [][last'.op = "go_up" =>
       LET parent == Parent(fm.current_path)
       IN  IF parent = None THEN last'.ok /\ fm' = fm
           ELSE /\ \E order \in OrdersOf(fm, parent), watch_ok \in BOOLEAN :
                     NavigateTo(fm, parent, order, watch_ok) = [fm |-> fm', ok |-> last'.ok]
                /\ ReadDirOk(parent) =>
                     /\ fm'.current_path = parent
                     /\ fm'.history = IF Kept(fm)[Len(Kept(fm))] = parent
                                      THEN Kept(fm) ELSE Append(Kept(fm), parent)
                     /\ fm'.history_index = Len(fm'.history) - 1
                     /\ fm'.selected_items = <<>>]_vars

\* C17 happens: go_up succeeded from the middle of a history of three
\* entries, which it cut and extended by the parent
C17_Witness ==
  /\ last.op = "go_up" /\ last.ok
  /\ last.index = 1 /\ last.len = 3
  /\ Len(fm.history) = 3 /\ fm.history_index = 2
  /\ fm.current_path = Root /\ fm.history[3] = Root /\ fm.history[2] # Root

\* a directory never stands after a non-directory
DirsFirst(items) ==
  \A i, j \in 1..Len(items) :
    (i < j /\ items[j].file_type = "Directory") => items[i].file_type = "Directory"

\* C18: for every directory content, sort key, direction and show-hidden
\* value, the snapshot a refresh produces has every Directory entry before
\* every non-Directory entry (and holds the entries the listing kept).
C18_DirectoriesFirst ==
  last.op = "sort_items" =>
    /\ DirsFirst(fm.items)
    /\ Len(fm.items) = Len(last.arg)
    /\ \A i \in 1..Len(last.arg) : \E k \in 1..Len(fm.items) : fm.items[k] = last.arg[i]

\* C18 happens: sorted by Size ascending, a snapshot of three entries puts a
\* directory before a smaller file and that file after a second directory
C18_Witness ==
  /\ last.op = "sort_items" /\ fm.sort_by = "Size" /\ fm.sort_order = "Ascending"
  /\ Len(fm.items) = 3
  /\ fm.items[2].file_type = "Directory" /\ fm.items[3].file_type # "Directory"
  /\ fm.items[3].size < fm.items[2].size
  /\ last.arg[1].file_type # "Directory"

\* a list back to front
Reverse(s) == [k \in 1..Len(s) |-> s[Len(s) + 1 - k]]

\* the Directory entries of a list, and the others, in the order of the list
DirsOf(items) == SelectSeq(items, LAMBDA x : x.file_type = "Directory")
OthersOf(items) == SelectSeq(items, LAMBDA x : x.file_type # "Directory")

\* no two entries of the same group (Directory or not) compare Equal
NoTies(items, sort_by) ==
  \A i, j \in 1..Len(items) :
    (i # j /\ DirKey(items[i]) = DirKey(items[j])) =>
      Comparison(items[i], items[j], sort_by, "Ascending") # 0

\* C19 as claimed: for every list of entries and every sort key, the snapshot
\* sorted Ascending and then reversed equals, entry for entry, the snapshot
\* sorted Descending, both taken after the directories-first pass.
C19_ReverseIsDescending ==
  (last.op = "sort_items" /\ fm.sort_order = "Descending") =>
    fm.items = Reverse(SortItems(last.arg, fm.sort_by, "Ascending"))

\* C19 amended: for every list of entries and every sort key under which no
\* two Directory entries and no two non-Directory entries of the list compare
\* equal, the Directory entries of the Ascending snapshot, reversed, are the
\* Directory entries of the Descending snapshot, and likewise the
\* non-Directory entries.
C19_ReverseWithinKinds ==
  (last.op = "sort_items" /\ fm.sort_order = "Descending" /\ NoTies(last.arg, fm.sort_by)) =>
    LET asc == SortItems(last.arg, fm.sort_by, "Ascending")
    IN  /\ DirsOf(fm.items) = Reverse(DirsOf(asc))
        /\ OthersOf(fm.items) = Reverse(OthersOf(asc))

\* C19 happens: a list of two files and a directory without ties was sorted
\* Descending, which changed the order of the two files
C19_Witness ==
  /\ last.op = "sort_items" /\ fm.sort_order = "Descending" /\ NoTies(last.arg, fm.sort_by)
  /\ Len(DirsOf(fm.items)) = 1 /\ Len(OthersOf(fm.items)) = 2
  /\ OthersOf(fm.items) # OthersOf(last.arg)
  /\ fm.items # Reverse(SortItems(last.arg, fm.sort_by, "Ascending"))

\* the entries of a snapshot
EntriesOf(items) == {items[k] : k \in 1..Len(items)}

\* C20 as claimed: toggle_hidden from false to true yields a snapshot that
\* contains every entry of the previous snapshot (the count never decreases),
\* and toggling back removes exactly the hidden entries, giving the same
\* snapshot as before the first toggle.
C20_ToggleRoundTrip ==
  /\ trip.stage \in {11, 12} =>
       (EntriesOf(trip.a) \subseteq EntriesOf(trip.b) /\ Len(trip.b) >= Len(trip.a))
  /\ trip.stage = 12 =>
       /\ EntriesOf(fm.items) = {x \in EntriesOf(trip.b) : ~x.is_hidden}
       /\ fm.items = trip.a

\* C20 amended: when the snapshot before the first toggle is a listing of the
\* current directory, toggle_hidden from false to true yields a snapshot that
\* contains every entry of it (the count never decreases), and toggling back
\* removes exactly the hidden entries, giving the entries of the snapshot
\* before the first toggle; the order is the same too when no two entries of
\* a kind compare equal under the sort key.
C20_ToggleRoundTripOfListing ==
  /\ (trip.stage \in {11, 12} /\ AllOk(trip)) =>
       (EntriesOf(trip.a) \subseteq EntriesOf(trip.b) /\ Len(trip.b) >= Len(trip.a))
  /\ (trip.stage = 12 /\ AllOk(trip)) =>
       /\ EntriesOf(fm.items) = {x \in EntriesOf(trip.b) : ~x.is_hidden}
       /\ EntriesOf(fm.items) = EntriesOf(trip.a)
       /\ Len(fm.items) = Len(trip.a)
       /\ NoTies(trip.a, fm.sort_by) => fm.items = trip.a

\* C20 happens: in a listed directory with a hidden file the first toggle
\* added an entry and the second gave the first snapshot back
C20_Witness ==
  /\ trip.stage = 12 /\ AllOk(trip)
  /\ Len(trip.a) >= 1 /\ Len(trip.b) > Len(trip.a)
  /\ fm.items = trip.a /\ ~fm.show_hidden

\* the children of p a listing shows: those whose metadata can be read and
\* that are not hidden, unless hidden entries are shown
Visible(p, show_hidden) ==
  {FromPath(q) : q \in {c \in Children(p) : FromPathOk(c) /\ (show_hidden \/ ~IsHiddenFile(c))}}

\* C21: a listing of a readable directory succeeds and holds every visible
\* child whose metadata could be read, whatever failed for the other entries:
\* a per-entry failure never makes refresh return an error.
C21_EntryFailureSkipped ==
  (last.op = "refresh_items" /\ last.arg # None /\ ReadDirOk(fm.current_path)) =>
    /\ last.ok
    /\ EntriesOf(fm.items) = Visible(fm.current_path, fm.show_hidden)

\* ---------------------------------------------------- operations/copy.rs
\* The disk is a function from the paths that exist to their nodes: a file
\* with its bytes, a directory, or a symbolic link with its target.
File(data) == [kind |-> "file", data |-> data, target |-> <<>>]
Directory == [kind |-> "dir", data |-> <<>>, target |-> <<>>]
Symlink(target) == [kind |-> "link", data |-> <<>>, target |-> target]

\* the path the system calls that follow symbolic links work on
Resolve(d, p) == IF p \in DOMAIN d /\ d[p].kind = "link" THEN d[p].target ELSE p

\* Path::exists, Path::is_file, Path::is_dir, Path::metadata()?.len(): all
\* follow symbolic links
PathExists(d, p) == Resolve(d, p) \in DOMAIN d
PathIsFile(d, p) == PathExists(d, p) /\ d[Resolve(d, p)].kind = "file"
PathIsDir(d, p) == PathExists(d, p) /\ d[Resolve(d, p)].kind = "dir"
MetadataLen(d, p) == Len(d[Resolve(d, p)].data)

\* the entries fs::read_dir(p) yields
DirEntries(d, p) == {q \in DOMAIN d : Len(q) = Len(p) + 1 /\ SubSeq(q, 1, Len(p)) = p}

\* the entries walkdir::WalkDir::new(p) yields: p and everything below it,
\* symbolic links not followed
WalkDir(d, p) == {q \in DOMAIN d : Len(q) >= Len(p) /\ SubSeq(q, 1, Len(p)) = p}

\* the orders in which read_dir may yield a set of entries
RECURSIVE Orders(_)
Orders(S) ==
  IF S = {} THEN {<<>>}
  ELSE UNION {{<<q>> \o o : o \in Orders(S \ {q})} : q \in S}

\* fs::create_dir_all(p): fails on a path longer than the platform accepts
\* and when a component of p exists and is no directory
Prefixes(p) == {SubSeq(p, 1, k) : k \in 1..Len(p)}
CreateDirAllOk(d, p) ==
  /\ Len(p) <= PathMax
  /\ \A q \in Prefixes(p) : q \in DOMAIN d => d[q].kind = "dir"
CreateDirAll(d, p) ==
  [q \in DOMAIN d \cup Prefixes(p) |-> IF q \in DOMAIN d THEN d[q] ELSE Directory]

\* fs::copy(source, dest): the bytes of source replace those of dest, which is
\* created when missing; fails when dest is a directory or its path too long
FsCopyOk(d, source, dest) ==
  /\ PathIsFile(d, source)
  /\ Len(dest) <= PathMax
  /\ PathExists(d, dest) => PathIsFile(d, dest)
FsCopy(d, source, dest) ==
  LET to == Resolve(d, dest)
  IN  [q \in DOMAIN d \cup {to} |-> IF q = to THEN File(d[Resolve(d, source)].data) ELSE d[q]]

\* CopyOperation::new(..).with_overwrite(..).with_progress_callback(tx)
CopyOperation(source_paths, destination, overwrite) ==
  [source_paths |-> source_paths, destination |-> destination, overwrite |-> overwrite]

RECURSIVE SumLen(_, _)
SumLen(d, S) ==
  IF S = {} THEN 0
  ELSE LET q == CHOOSE q \in S : TRUE IN Len(d[q].data) + SumLen(d, S \ {q})

\* CopyOperation::calculate_work: (files, bytes) of one source
CalculateWork(d, path) ==
  IF PathIsFile(d, path) THEN [files |-> 1, bytes |-> MetadataLen(d, path)]
  ELSE IF PathIsDir(d, path)
  THEN LET found == {q \in WalkDir(d, path) : d[q].kind = "file"}
       IN  [files |-> Cardinality(found), bytes |-> SumLen(d, found)]
  ELSE [files |-> 0, bytes |-> 0]

RECURSIVE TotalWork(_, _)
TotalWork(d, sources) ==
  IF sources = <<>> THEN [files |-> 0, bytes |-> 0]
  ELSE LET one == CalculateWork(d, Head(sources))
           rest == TotalWork(d, Tail(sources))
       IN  [files |-> one.files + rest.files, bytes |-> one.bytes + rest.bytes]

\* a copy operation before execute(): `at` is where execute() is, next the
\* source the second loop of execute() takes next, stack the calls of
\* copy_recursive on directories with the entries their loops still have to
\* take, copied the source files fs::copy has finished, each with the index
\* of its source, result "running" until execute() returns its Result
Created(op, d) ==
  [op |-> op, at |-> "new", result |-> "running", before |-> d,
   total_files |-> 0, total_bytes |-> 0, completed_files |-> 0, bytes_copied |-> 0,
   next |-> 1, stack |-> <<>>, copied |-> <<>>]

\* mutant: execute() is left without its Result reaching the caller
Returned_NoResult(r, result) == [r EXCEPT !.at = "returned"]

\* execute() returned `result`
Returned(r, result) == [r EXCEPT !.at = "returned", !.result = result]

\* the `?` of a failed call: execute() returns the Err
Failed(r) == Returned(r, "err")

\* CopyProgress { .. } as copy_recursive builds it
CopyProgress(r, current_file) ==
  [current_file |-> current_file, total_files |-> r.total_files,
   completed_files |-> r.completed_files, bytes_copied |-> r.bytes_copied,
   total_bytes |-> r.total_bytes]

\* the calls of copy_recursive whose loop has no entry left return
RECURSIVE Unwind(_)
Unwind(stack) ==
  IF stack # <<>> /\ stack[Len(stack)].todo = <<>>
  THEN Unwind(SubSeq(stack, 1, Len(stack) - 1))
  ELSE stack

\* mutant: the second loop of execute() takes the sources last to first
NextCall_LastFirst(r) ==
  LET n == Len(r.op.source_paths)
  IN  IF r.stack = <<>>
      THEN [source |-> r.op.source_paths[n + 1 - r.next], dest_dir |-> r.op.destination,
            index |-> n + 1 - r.next]
      ELSE LET top == r.stack[Len(r.stack)]
           IN  [source |-> Head(top.todo), dest_dir |-> top.dest_path, index |-> n + 2 - r.next]

\* the source and the dest_dir of the next call of copy_recursive, and the
\* index of the source of execute() it belongs to
NextCall(r) ==
  IF r.stack = <<>>
  THEN [source |-> r.op.source_paths[r.next], dest_dir |-> r.op.destination, index |-> r.next]
  ELSE LET top == r.stack[Len(r.stack)]
       IN  [source |-> Head(top.todo), dest_dir |-> top.dest_path, index |-> r.next - 1]

HasNextCall(r) == r.at = "copying" /\ (r.stack # <<>> \/ r.next <= Len(r.op.source_paths))

\* the loop that made the call moves on to its next entry
Taken(r) ==
  IF r.stack = <<>> THEN [r EXCEPT !.next = @ + 1]
  ELSE [r EXCEPT !.stack[Len(r.stack)].todo = Tail(@)]

\* let dest_path = dest_dir.join(source.file_name().unwrap())
DestPath(call) == Append(call.dest_dir, call.source[Len(call.source)])

\* execute() up to its second loop: the destination is created when missing
\* and the first pass adds up the work of every source
Execute ==
  /\ run # <<>> /\ run.at = "new"
  /\ LET made == PathExists(disk, run.op.destination) \/ CreateDirAllOk(disk, run.op.destination)
         d == IF PathExists(disk, run.op.destination) \/ ~made THEN disk
              ELSE CreateDirAll(disk, run.op.destination)
         total == TotalWork(d, run.op.source_paths)
     IN  /\ disk' = d
         /\ run' = IF ~made THEN Failed(run)
                   ELSE [run EXCEPT !.at = "copying", !.total_files = total.files,
                                    !.total_bytes = total.bytes]
  /\ UNCHANGED events
  /\ UNCHANGED session

\* mutant: copy_file overwrites whatever the flag
MayWrite_Always(d, dest, overwrite) == TRUE

\* copy_file goes on to fs::copy: not (dest.exists() && !self.overwrite)
MayWrite(d, dest, overwrite) == ~(PathExists(d, dest) /\ ~overwrite)

\* mutant: only the bytes are counted
Counted_BytesOnly(r, d, source) ==
  [r EXCEPT !.bytes_copied = @ + MetadataLen(d, source)]

\* *completed_files += 1; *bytes_copied += source.metadata()?.len()
Counted(r, d, source) ==
  [r EXCEPT !.completed_files = @ + 1, !.bytes_copied = @ + MetadataLen(d, source)]

\* copy_recursive on a file, up to the progress event: copy_file (the check
\* of dest, create_dir_all of its parent, fs::copy), then the counters
CopyFile ==
  /\ run # <<>> /\ HasNextCall(run) /\ PathIsFile(disk, NextCall(run).source)
  /\ LET call == NextCall(run)
         dest == DestPath(call)
         write == MayWrite(disk, dest, run.op.overwrite) /\ CreateDirAllOk(disk, call.dest_dir)
         made == IF write THEN CreateDirAll(disk, call.dest_dir) ELSE disk
         ok == write /\ FsCopyOk(made, call.source, dest)
         d == IF ok THEN FsCopy(made, call.source, dest) ELSE made
     IN  /\ disk' = d
         /\ run' = IF ~ok THEN Failed(run)
                   ELSE [Counted(Taken(run), d, call.source) EXCEPT
                           !.at = "send",
                           !.copied = Append(@, [file |-> call.source, index |-> call.index])]
  /\ UNCHANGED events
  /\ UNCHANGED session

\* tx.send(progress), then the call returns to the loop that made it
SendProgress ==
  /\ run # <<>> /\ run.at = "send"
  /\ events' = Append(events, CopyProgress(run, run.copied[Len(run.copied)].file))
  /\ run' = [run EXCEPT !.at = "copying", !.stack = Unwind(@)]
  /\ UNCHANGED disk
  /\ UNCHANGED session

\* copy_recursive on a directory: create_dir_all(dest_path), then read_dir,
\* whose entries the loop takes one by one
CopyDir ==
  /\ run # <<>> /\ HasNextCall(run) /\ PathIsDir(disk, NextCall(run).source)
  /\ LET call == NextCall(run)
         dest == DestPath(call)
         ok == CreateDirAllOk(disk, dest)
         d == IF ok THEN CreateDirAll(disk, dest) ELSE disk
     IN  /\ disk' = d
         /\ \E order \in Orders(DirEntries(d, call.source)) :
              run' = IF ~ok THEN Failed(run)
                     ELSE [Taken(run) EXCEPT
                             !.stack = Unwind(Append(@, [dest_path |-> dest, todo |-> order]))]
  /\ UNCHANGED events
  /\ UNCHANGED session

\* copy_recursive on a path that is neither a file nor a directory: Ok(())
CopyNothing ==
  /\ run # <<>> /\ HasNextCall(run)
  /\ ~PathIsFile(disk, NextCall(run).source) /\ ~PathIsDir(disk, NextCall(run).source)
  /\ run' = [Taken(run) EXCEPT !.stack = Unwind(@)]
  /\ UNCHANGED <<disk, events>>
  /\ UNCHANGED session

\* execute() returns Ok(()) after its second loop
Completed ==
  /\ run # <<>> /\ run.at = "copying" /\ ~HasNextCall(run)
  /\ run' = Returned(run, "ok")
  /\ UNCHANGED <<disk, events>>
  /\ UNCHANGED session

\* the disks a copy starts on: a directory s with a file, a subdirectory and
\* its file, a file t and the directory o; with or without a symbolic link to
\* a file in s, a file t in o, a file s/d/g in o
S == <<"/", "s">>
T == <<"/", "t">>
O == <<"/", "o">>
D == <<"/", "s", "d">>
Missing == <<"/", "n">>
BaseDisk ==
  (<<"/">> :> Directory) @@ (S :> Directory) @@ (<<"/", "s", "f">> :> File(<<1>>))
  @@ (D :> Directory) @@ (<<"/", "s", "d", "g">> :> File(<<2, 2>>))
  @@ (T :> File(<<3, 3, 3>>)) @@ (O :> Directory)
WithLink == <<"/", "s", "l">> :> Symlink(T)
WithT == <<"/", "o", "t">> :> File(<<9>>)
WithG ==
  (<<"/", "o", "s">> :> Directory) @@ (<<"/", "o", "s", "d">> :> Directory)
  @@ (<<"/", "o", "s", "d", "g">> :> File(<<9>>))
Disks ==
  {BaseDisk @@ (IF l THEN WithLink ELSE <<>>) @@ (IF t THEN WithT ELSE <<>>)
            @@ (IF g THEN WithG ELSE <<>>) : l, t, g \in BOOLEAN}
SourceLists == {<<S>>, <<T>>, <<S, T>>, <<T, S>>, <<D>>, <<Missing>>}
Destinations == {O, Missing, D}

InitCopy ==
  /\ fm = New
  /\ last = Called("new", None, TRUE, 0, 1)
  /\ trip = Trip(-1, None, None, <<>>)
  /\ lock = Free
  /\ pc = [t \in Threads |-> "idle"]
  /\ job = [t \in Tasks |-> NoJob]
  /\ disk \in Disks
  /\ \E sources \in SourceLists, destination \in Destinations, overwrite \in BOOLEAN :
       run = Created(CopyOperation(sources, destination, overwrite), disk)
  /\ events = <<>>

NextCopy ==
  \/ Execute
  \/ CopyFile
  \/ SendProgress
  \/ CopyDir
  \/ CopyNothing
  \/ Completed

SpecCopy == InitCopy /\ [][NextCopy]_vars

\* the runtime polls the future of execute() until it returns
FairCopy == SpecCopy /\ WF_vars(NextCopy)

\* C22: over the progress events of a copy run, completed_files grows by
\* exactly one from each event to the next, bytes_copied never decreases, and
\* total_files and total_bytes are the same in every event.
C22_ProgressMonotonic ==
  \A k \in 1..Len(events) :
    /\ events[k].total_files = events[1].total_files
    /\ events[k].total_bytes = events[1].total_bytes
    /\ k > 1 => /\ events[k].completed_files = events[k - 1].completed_files + 1
                /\ events[k].bytes_copied >= events[k - 1].bytes_copied

\* three events of one run, the bytes growing by different amounts
C22_Witness ==
  /\ Len(events) >= 3
  /\ events[2].bytes_copied - events[1].bytes_copied # events[3].bytes_copied - events[2].bytes_copied

\* the files (symbolic links apart) below the sources
SourceFiles(d, sources) ==
  {q \in UNION {WalkDir(d, sources[i]) : i \in 1..Len(sources)} : d[q].kind = "file"}

\* the path a path q at or below source has below dest
Copied(source, dest, q) == dest \o SubSeq(q, Len(source), Len(q))

\* q of disk a and p of disk b are directories both, or hold the same bytes
SameNode(a, q, b, p) ==
  /\ PathExists(b, p)
  /\ IF PathIsDir(a, q) THEN PathIsDir(b, p)
     ELSE PathIsFile(b, p) /\ b[Resolve(b, p)].data = a[Resolve(a, q)].data

\* below dest/<base name of source> disk b holds the tree disk a holds at source
SameTree(a, source, b, dest) ==
  /\ \A q \in WalkDir(a, source) : SameNode(a, q, b, Copied(source, dest, q))
  /\ \A p \in WalkDir(b, Copied(source, dest, source)) :
       \E q \in WalkDir(a, source) : p = Copied(source, dest, q)

\* C23: a copy with overwrite=false of sources that exist into an empty (or
\* missing) destination succeeds, emits one progress event per source file,
\* ends with completed_files = total_files = the number of source files and
\* bytes_copied = total_bytes = the sum of their sizes, and leaves the tree
\* of every source under destination/<source base name>.
C23_CopyIntoEmpty ==
  (/\ run # <<>> /\ run.at = "returned" /\ ~run.op.overwrite
   /\ DirEntries(run.before, run.op.destination) = {}
   /\ \A i \in 1..Len(run.op.source_paths) : PathExists(run.before, run.op.source_paths[i]))
  => LET files == SourceFiles(run.before, run.op.source_paths)
     IN  /\ run.result = "ok"
         /\ Len(events) = Cardinality(files)
         /\ run.completed_files = Cardinality(files)
         /\ run.total_files = Cardinality(files)
         /\ run.bytes_copied = SumLen(run.before, files)
         /\ run.total_bytes = SumLen(run.before, files)
         /\ \A i \in 1..Len(run.op.source_paths) :
              SameTree(run.before, run.op.source_paths[i], disk, run.op.destination)

\* C24: with overwrite=false, the step of a copy that reaches a file whose
\* destination path exists returns an error and changes neither the disk nor
\* the progress channel; after the error nothing is copied and nothing sent.
C24_CollisionAborts ==
  [][/\ (/\ run # <<>> /\ HasNextCall(run) /\ PathIsFile(disk, NextCall(run).source)
         /\ ~run.op.overwrite /\ PathExists(disk, DestPath(NextCall(run))))
        => (run'.result = "err" /\ disk' = disk /\ events' = events)
     /\ (run # <<>> /\ run.result = "err") => (disk' = disk /\ events' = events)]_vars

\* s was copied into o up to o/s/d/g, which existed: the run failed after
\* the event of s/f, o/s/f is there and o/s/d/g holds its own bytes
C24_Witness ==
  /\ run # <<>> /\ run.result = "err" /\ ~run.op.overwrite
  /\ run.op.destination = O /\ run.op.source_paths = <<S>>
  /\ Len(events) >= 1
  /\ <<"/", "o", "s", "f">> \in DOMAIN disk /\ disk[<<"/", "o", "s", "f">>].data = <<1>>
  /\ <<"/", "o", "s", "d", "g">> \in DOMAIN disk /\ disk[<<"/", "o", "s", "d", "g">>].data = <<9>>

\* C25: in every progress event, completed_files <= total_files and
\* bytes_copied <= total_bytes, whatever the source trees hold.
C25_ProgressWithinTotals ==
  \A k \in 1..Len(events) :
    /\ events[k].completed_files <= events[k].total_files
    /\ events[k].bytes_copied <= events[k].total_bytes

\* C26: the progress events are sent in the order the files were copied: the
\* k-th event names the k-th file fs::copy finished, the event of a file is
\* in the channel before the next file is copied, and the files of a source
\* are copied before those of the sources after it.
C26_EventsInCopyOrder ==
  run # <<>> =>
    /\ Len(events) = Len(run.copied) - (IF run.at = "send" THEN 1 ELSE 0)
    /\ \A k \in 1..Len(events) :
         /\ events[k].current_file = run.copied[k].file
         /\ events[k].completed_files = k
    /\ \A i, j \in 1..Len(run.copied) : i < j => run.copied[i].index <= run.copied[j].index

\* the sources t and s in this order, every file of both copied and reported
C26_Witness ==
  /\ run # <<>> /\ run.result = "ok" /\ run.op.source_paths = <<T, S>>
  /\ Len(events) >= 3
  /\ events[1].current_file = T
  /\ run.copied[Len(run.copied)].index = 2

Text ==
  [n \in {"docs", "report.pdf", "report.txt", "old_report.pdf", "sub", "Report.PDF", "README", "gone.pdf", "report", "REPORT", "", "^report", "r.port", "pdf", "PDF", "(", "a Report b", "report x"} |->
    CASE n = "docs" -> <<100, 111, 99, 115>>
      [] n = "report.pdf" -> <<114, 101, 112, 111, 114, 116, 46, 112, 100, 102>>
      [] n = "report.txt" -> <<114, 101, 112, 111, 114, 116, 46, 116, 120, 116>>
      [] n = "old_report.pdf" -> <<111, 108, 100, 95, 114, 101, 112, 111, 114, 116, 46, 112, 100, 102>>
      [] n = "sub" -> <<115, 117, 98>>
      [] n = "Report.PDF" -> <<82, 101, 112, 111, 114, 116, 46, 80, 68, 70>>
      [] n = "README" -> <<82, 69, 65, 68, 77, 69>>
      [] n = "gone.pdf" -> <<103, 111, 110, 101, 46, 112, 100, 102>>
      [] n = "report" -> <<114, 101, 112, 111, 114, 116>>
      [] n = "REPORT" -> <<82, 69, 80, 79, 82, 84>>
      [] n = "" -> <<>>
      [] n = "^report" -> <<94, 114, 101, 112, 111, 114, 116>>
      [] n = "r.port" -> <<114, 46, 112, 111, 114, 116>>
      [] n = "pdf" -> <<112, 100, 102>>
      [] n = "PDF" -> <<80, 68, 70>>
      [] n = "(" -> <<40>>
      [] n = "a Report b" -> <<97, 32, 82, 101, 112, 111, 114, 116, 32, 98>>
      [] n = "report x" -> <<114, 101, 112, 111, 114, 116, 32, 120>>]

\* str::to_lowercase and str::contains, on code points
Lower(s) == [i \in 1..Len(s) |-> ToLowerChar(s[i])]
Contains(s, p) == \E i \in 0..(Len(s) - Len(p)) : \A k \in 1..Len(p) : s[i + k] = p[k]

\* Regex::new(&format!("(?i){}", pattern)): the pattern behind the flag
CaseInsensitive(pattern) == <<40, 63, 105, 41>> \o pattern

\* Regex::new(..) is Ok for the patterns in use: behind an optional (?i),
\* every ( has its )
RegexNewOk(re) ==
  LET ci == Len(re) >= 4 /\ SubSeq(re, 1, 4) = <<40, 63, 105, 41>>
      rest == IF ci THEN SubSeq(re, 5, Len(re)) ELSE re
  IN  Cardinality({i \in 1..Len(rest) : rest[i] = 40}) = Cardinality({i \in 1..Len(rest) : rest[i] = 41})

\* Regex::is_match for the patterns in use: an optional leading (?i), after
\* which letters match whatever their case, an optional ^, then literal
\* characters and . for any character
RegexIsMatch(re, s) ==
  LET ci == Len(re) >= 4 /\ SubSeq(re, 1, 4) = <<40, 63, 105, 41>>
      rest == IF ci THEN SubSeq(re, 5, Len(re)) ELSE re
      anchored == Len(rest) > 0 /\ rest[1] = 94
      body == IF anchored THEN Tail(rest) ELSE rest
      starts == IF anchored THEN {0} ELSE 0..(Len(s) - Len(body))
  IN  \E i \in starts :
        /\ i + Len(body) <= Len(s)
        /\ \A k \in 1..Len(body) :
             \/ body[k] = 46
             \/ IF ci THEN ToLowerChar(body[k]) = ToLowerChar(s[i + k]) ELSE body[k] = s[i + k]

\* Path::extension: None without a dot in the file name or with its only dot
\* in front, else Some(what follows the last dot)
Extension(s) ==
  LET dots == {i \in 1..Len(s) : s[i] = 46}
  IN  IF dots = {} THEN <<>>
      ELSE LET dot == CHOOSE i \in dots : \A j \in dots : j <= i
           IN  IF dot = 1 THEN <<>> ELSE <<SubSeq(s, dot + 1, Len(s))>>

\* the nodes of the disk a search walks: `listed` FALSE for a directory
\* read_dir fails on, `stat` FALSE for an entry that is gone when its
\* metadata is asked for, text what read_to_string gives: Some(content), or
\* None for bytes that are no text
Entry(kind, len, modified) ==
  [kind |-> kind, len |-> len, modified |-> modified, listed |-> TRUE, stat |-> TRUE,
   text |-> <<>>]

\* SearchQuery
SearchQuery(text, types, limits) ==
  [pattern |-> text.pattern, is_regex |-> text.is_regex, case_sensitive |-> text.case_sensitive,
   search_in_content |-> FALSE, file_types |-> types, size_min |-> limits.size_min, size_max |-> limits.size_max,
   modified_after |-> limits.modified_after, modified_before |-> limits.modified_before]

\* mutant: the pattern is compiled as it is, whatever case_sensitive
Compile_NoFlag(q) == IF ~q.is_regex THEN <<>> ELSE <<q.pattern>>

\* the source of the regex search() compiles before the walk: Some(..) in
\* regex mode
Compile(q) ==
  IF ~q.is_regex THEN <<>>
  ELSE IF q.case_sensitive THEN <<q.pattern>>
  ELSE <<CaseInsensitive(q.pattern)>>

\* matches_criteria, "Check file name pattern"
NameMatches(q, regex, file_name) ==
  IF regex # <<>> THEN RegexIsMatch(regex[1], file_name)
  ELSE IF q.case_sensitive THEN Contains(file_name, q.pattern)
  ELSE Contains(Lower(file_name), Lower(q.pattern))

\* Path::is_file: the metadata can be read and is that of a regular file
IsFile(d, p) == d[p].stat /\ d[p].kind = "file"

\* mutant: a directory passes the extension filter
MatchesCriteria_DirsPass(q, regex, d, p) ==
  LET file_name == Text[p[Len(p)]]
      extension == Extension(file_name)
  IN  IF ~NameMatches(q, regex, file_name) THEN FALSE
      ELSE IF q.file_types # {} /\ extension # <<>> /\ Lower(extension[1]) \notin q.file_types
      THEN FALSE
      ELSE IF q.file_types # {} /\ extension = <<>> /\ <<>> \notin q.file_types /\ d[p].kind # "dir"
      THEN FALSE
      ELSE IF ~IsFile(d, p) THEN TRUE
      ELSE IF q.size_min # <<>> /\ d[p].len < q.size_min[1] THEN FALSE
      ELSE IF q.size_max # <<>> /\ d[p].len > q.size_max[1] THEN FALSE
      ELSE IF q.modified_after # <<>> /\ d[p].modified < q.modified_after[1] THEN FALSE
      ELSE IF q.modified_before # <<>> /\ d[p].modified > q.modified_before[1] THEN FALSE
      ELSE TRUE

\* mutant: size_max is not looked at
MatchesCriteria_NoMax(q, regex, d, p) ==
  LET file_name == Text[p[Len(p)]]
      extension == Extension(file_name)
  IN  IF ~NameMatches(q, regex, file_name) THEN FALSE
      ELSE IF q.file_types # {} /\ extension # <<>> /\ Lower(extension[1]) \notin q.file_types
      THEN FALSE
      ELSE IF q.file_types # {} /\ extension = <<>> /\ <<>> \notin q.file_types THEN FALSE
      ELSE IF ~IsFile(d, p) THEN TRUE
      ELSE IF q.size_min # <<>> /\ d[p].len < q.size_min[1] THEN FALSE
      ELSE IF q.modified_after # <<>> /\ d[p].modified < q.modified_after[1] THEN FALSE
      ELSE IF q.modified_before # <<>> /\ d[p].modified > q.modified_before[1] THEN FALSE
      ELSE TRUE

\* FileSearcher::matches_criteria, each early return in its place
MatchesCriteria(q, regex, d, p) ==
  LET file_name == Text[p[Len(p)]]
      extension == Extension(file_name)
  IN  IF ~NameMatches(q, regex, file_name) THEN FALSE
      ELSE IF q.file_types # {} /\ extension # <<>> /\ Lower(extension[1]) \notin q.file_types
      THEN FALSE
      ELSE IF q.file_types # {} /\ extension = <<>> /\ <<>> \notin q.file_types THEN FALSE
      ELSE IF ~IsFile(d, p) THEN TRUE
      ELSE IF q.size_min # <<>> /\ d[p].len < q.size_min[1] THEN FALSE
      ELSE IF q.size_max # <<>> /\ d[p].len > q.size_max[1] THEN FALSE
      ELSE IF q.modified_after # <<>> /\ d[p].modified < q.modified_after[1] THEN FALSE
      ELSE IF q.modified_before # <<>> /\ d[p].modified > q.modified_before[1] THEN FALSE
      ELSE TRUE

\* FileSearcher::is_text_file: txt md rst log cfg conf ini json xml yaml yml
\* toml rs py js ts html css scss c cpp h hpp java go php rb pl sh bash ps1
\* bat cmd
IsTextFile(extension) ==
  extension \in
    {<<116, 120, 116>>, <<109, 100>>, <<114, 115, 116>>, <<108, 111, 103>>,
     <<99, 102, 103>>, <<99, 111, 110, 102>>, <<105, 110, 105>>, <<106, 115, 111, 110>>,
     <<120, 109, 108>>, <<121, 97, 109, 108>>, <<121, 109, 108>>, <<116, 111, 109, 108>>,
     <<114, 115>>, <<112, 121>>, <<106, 115>>, <<116, 115>>,
     <<104, 116, 109, 108>>, <<99, 115, 115>>, <<115, 99, 115, 115>>, <<99>>,
     <<99, 112, 112>>, <<104>>, <<104, 112, 112>>, <<106, 97, 118, 97>>,
     <<103, 111>>, <<112, 104, 112>>, <<114, 98>>, <<112, 108>>,
     <<115, 104>>, <<98, 97, 115, 104>>, <<112, 115, 49>>, <<98, 97, 116>>,
     <<99, 109, 100>>}

\* the characters of context before and after a match
ContextLen == 50

\* FileSearcher::search_in_file_content: Some(excerpt) or None
SearchInFileContent(q, d, p) ==
  LET extension == Extension(Text[p[Len(p)]])
  IN  IF extension # <<>> /\ ~IsTextFile(Lower(extension[1])) THEN <<>>
      ELSE IF d[p].text = <<>> THEN <<>>
      ELSE LET content == d[p].text[1]
               search_content == IF q.case_sensitive THEN content ELSE Lower(content)
               pattern == IF q.case_sensitive THEN q.pattern ELSE Lower(q.pattern)
               found == {i \in 0..(Len(search_content) - Len(pattern)) :
                           \A k \in 1..Len(pattern) : search_content[i + k] = pattern[k]}
           IN  IF found = {} THEN <<>>
               ELSE LET pos == CHOOSE i \in found : \A j \in found : i <= j
                        start == IF pos < ContextLen THEN 0 ELSE pos - ContextLen
                        end == IF pos + Len(pattern) + ContextLen < Len(content)
                               THEN pos + Len(pattern) + ContextLen ELSE Len(content)
                    IN  <<SubSeq(content, start + 1, end)>>

\* SearchResult { .. } of an entry
SearchResult(q, d, p) ==
  [path |-> p, file_name |-> Text[p[Len(p)]], size |-> d[p].len, modified |-> d[p].modified,
   match_context |-> IF q.search_in_content /\ IsFile(d, p) THEN SearchInFileContent(q, d, p)
                     ELSE <<>>]

\* an item of the WalkDir iterator that is Err(..) instead of an entry
WalkErr == <<"!">>

\* the sequences WalkDir::new(p).follow_links(false) may yield: p, then what
\* is below each of its entries, the entries in any order; an Err in the
\* place of the entries of a directory that cannot be read, and for a root
\* that does not exist
RECURSIVE WalksBelow(_, _)
RECURSIVE WalksOf(_, _)
WalksBelow(d, order) ==
  IF order = <<>> THEN {<<>>}
  ELSE {a \o b : a \in WalksOf(d, Head(order)), b \in WalksBelow(d, Tail(order))}
WalksOf(d, p) ==
  IF p \notin DOMAIN d THEN {<<WalkErr>>}
  ELSE IF d[p].kind # "dir" THEN {<<p>>}
  ELSE IF ~d[p].listed THEN {<<p, WalkErr>>}
  ELSE {<<p>> \o w : w \in UNION {WalksBelow(d, order) : order \in Orders(DirEntries(d, p))}}

\* FileSearcher::new(query), and the root search() is called with;
\* compiled counts the calls of Regex::new
FileSearcher(query, root) ==
  [query |-> query, root |-> root, at |-> "new", result |-> "running", regex |-> <<>>,
   compiled |-> 0, walk |-> <<>>, todo |-> <<>>, results |-> <<>>]

\* the disks a search walks: docs with three files; the same with a
\* directory sub of two files; the same with sub unreadable; docs with a
\* fourth file that is gone before its metadata is read; no docs at all
Docs == <<"docs">>
Sub == <<"docs", "sub">>
ThreeFiles ==
  (Docs :> Entry("dir", 4096, 9))
  @@ (<<"docs", "report.pdf">> :> Entry("file", 5, 5))
  @@ (<<"docs", "report.txt">> :> Entry("file", 2, 2))
  @@ (<<"docs", "old_report.pdf">> :> Entry("file", 9, 8))
WithSub ==
  ThreeFiles @@ (Sub :> Entry("dir", 4096, 9))
  @@ (<<"docs", "sub", "Report.PDF">> :> Entry("file", 5, 3))
  @@ (<<"docs", "sub", "README">> :> Entry("file", 4, 7))
SubUnreadable == [WithSub EXCEPT ![Sub].listed = FALSE]
WithGone ==
  ThreeFiles @@ (<<"docs", "gone.pdf">> :> [Entry("file", 5, 5) EXCEPT !.stat = FALSE])
NoDocs == <<"sub">> :> Entry("dir", 4096, 9)
SearchDisks == {ThreeFiles, WithSub, SubUnreadable, WithGone, NoDocs}

\* the disks a content search walks: docs with report.txt, the file report
\* without extension and report.pdf, the three holding text with the word;
\* the same with report.txt holding bytes that are no text
TextFiles ==
  (Docs :> Entry("dir", 4096, 9))
  @@ (<<"docs", "report.txt">> :> [Entry("file", 10, 2) EXCEPT !.text = <<Text["a Report b"]>>])
  @@ (<<"docs", "report">> :> [Entry("file", 8, 3) EXCEPT !.text = <<Text["report x"]>>])
  @@ (<<"docs", "report.pdf">> :> [Entry("file", 6, 5) EXCEPT !.text = <<Text["report"]>>])
BinaryTxt == [TextFiles EXCEPT ![<<"docs", "report.txt">>].text = <<>>]
ContentDisks == {TextFiles, BinaryTxt}

Walks == [d \in SearchDisks \cup ContentDisks |-> WalksOf(d, Docs)]

Texts ==
  {[pattern |-> Text["report"], is_regex |-> FALSE, case_sensitive |-> FALSE],
   [pattern |-> Text["report"], is_regex |-> FALSE, case_sensitive |-> TRUE],
   [pattern |-> Text["REPORT"], is_regex |-> FALSE, case_sensitive |-> FALSE],
   [pattern |-> Text[""], is_regex |-> FALSE, case_sensitive |-> FALSE],
   [pattern |-> Text["^report"], is_regex |-> TRUE, case_sensitive |-> FALSE],
   [pattern |-> Text["r.port"], is_regex |-> TRUE, case_sensitive |-> TRUE]}
FileTypes == {{}, {Text["pdf"]}, {Text["PDF"]}, {Text[""]}, {Text["pdf"], Text[""]}}
Limits ==
  {[size_min |-> a, size_max |-> b, modified_after |-> c, modified_before |-> e] :
     a \in {<<>>, <<3>>}, b \in {<<>>, <<6>>}, c \in {<<>>, <<4>>}, e \in {<<>>, <<6>>}}
Queries == {SearchQuery(text, types, limits) : text \in Texts, types \in FileTypes, limits \in Limits}

InitSearch ==
  /\ fm = New
  /\ last = Called("new", None, TRUE, 0, 1)
  /\ trip = Trip(-1, None, None, <<>>)
  /\ lock = Free
  /\ pc = [t \in Threads |-> "idle"]
  /\ job = [t \in Tasks |-> NoJob]
  /\ disk \in SearchDisks
  /\ \E query \in Queries : run = FileSearcher(query, Docs)
  /\ events = <<>>

\* search() up to its loop: results.clear(), Regex::new(..)? in regex mode,
\* WalkDir::new(root)
SearchStart ==
  /\ run.at = "new"
  /\ \E walk \in Walks[disk] :
       LET source == Compile(run.query)
           cleared == [run EXCEPT !.results = <<>>, !.compiled = IF source # <<>> THEN 1 ELSE 0]
       IN  run' = IF source # <<>> /\ ~RegexNewOk(source[1]) THEN Failed(cleared)
                  ELSE [cleared EXCEPT !.at = "walking", !.regex = source,
                                       !.walk = walk, !.todo = walk]
  /\ UNCHANGED <<disk, events>>
  /\ UNCHANGED session

\* one turn of the loop of search(): `entry?`, matches_criteria(path)?,
\* entry.metadata()?, search_in_file_content(path)? and the push of the
\* result
SearchEntry ==
  /\ run.at = "walking" /\ run.todo # <<>>
  /\ LET p == Head(run.todo)
     IN  run' = IF p = WalkErr THEN Failed(run)
                ELSE IF ~MatchesCriteria(run.query, run.regex, disk, p)
                THEN [run EXCEPT !.todo = Tail(@)]
                ELSE IF ~disk[p].stat THEN Failed(run)
                ELSE [run EXCEPT !.todo = Tail(@), !.results = Append(@, SearchResult(run.query, disk, p))]
  /\ UNCHANGED <<disk, events>>
  /\ UNCHANGED session

\* Ok(self.results.clone()) after the loop
SearchReturn ==
  /\ run.at = "walking" /\ run.todo = <<>>
  /\ run' = Returned(run, "ok")
  /\ UNCHANGED <<disk, events>>
  /\ UNCHANGED session

NextSearch ==
  \/ SearchStart
  \/ SearchEntry
  \/ SearchReturn

SpecSearch == InitSearch /\ [][NextSearch]_vars

\* the queries of a content search: every pattern, the pattern ( as text and
\* as a regex, content search on and off, no extensions and no limits
ContentTexts ==
  Texts \cup {[pattern |-> Text["("], is_regex |-> r, case_sensitive |-> c] :
                r \in BOOLEAN, c \in BOOLEAN}
ContentQueries ==
  {[SearchQuery(text, {}, [size_min |-> <<>>, size_max |-> <<>>, modified_after |-> <<>>,
                           modified_before |-> <<>>])
      EXCEPT !.search_in_content = c] : text \in ContentTexts, c \in BOOLEAN}

InitContent ==
  /\ fm = New
  /\ last = Called("new", None, TRUE, 0, 1)
  /\ trip = Trip(-1, None, None, <<>>)
  /\ lock = Free
  /\ pc = [t \in Threads |-> "idle"]
  /\ job = [t \in Tasks |-> NoJob]
  /\ disk \in ContentDisks
  /\ \E query \in ContentQueries : run = FileSearcher(query, Docs)
  /\ events = <<>>

SpecContent == InitContent /\ [][NextSearch]_vars

\* the predicates of a query an entry has to satisfy, one by one: the name,
\* the extension when extensions are given (an entry without one counts as
\* having the empty extension), and for a file the size and the time
InLimits(q, d, p) ==
  /\ q.size_min # <<>> => d[p].len >= q.size_min[1]
  /\ q.size_max # <<>> => d[p].len <= q.size_max[1]
  /\ q.modified_after # <<>> => d[p].modified >= q.modified_after[1]
  /\ q.modified_before # <<>> => d[p].modified <= q.modified_before[1]
LowerExtension(name) == IF Extension(name) = <<>> THEN <<>> ELSE Lower(Extension(name)[1])
Satisfies(q, d, p) ==
  /\ NameMatches(q, Compile(q), Text[p[Len(p)]])
  /\ q.file_types # {} => LowerExtension(Text[p[Len(p)]]) \in q.file_types
  /\ IsFile(d, p) => InLimits(q, d, p)

\* the entries the loop of search() has taken so far
Visited(r) == SubSeq(r.walk, 1, Len(r.walk) - Len(r.todo))

\* the query of the example: pattern "report", extensions {pdf}
ReportPdf ==
  SearchQuery([pattern |-> Text["report"], is_regex |-> FALSE, case_sensitive |-> FALSE],
              {Text["pdf"]},
              [size_min |-> <<>>, size_max |-> <<>>, modified_after |-> <<>>, modified_before |-> <<>>])

\* C28: as long as a search has not failed, its results are the entries
\* visited so far that satisfy every predicate of the query, in the order
\* visited, and no other; pattern "report" with extensions {pdf} over
\* report.pdf, report.txt, old_report.pdf returns report.pdf and
\* old_report.pdf.
C28_EmitsIffAllPredicates ==
  (run.at \in {"walking", "returned"} /\ run.result # "err") =>
    LET Test(p) == Satisfies(run.query, disk, p)
    IN  /\ [k \in 1..Len(run.results) |-> run.results[k].path] = SelectSeq(Visited(run), Test)
        /\ (run.result = "ok" /\ disk = ThreeFiles /\ run.query = ReportPdf) =>
             {run.results[k].file_name : k \in 1..Len(run.results)}
               = {Text["report.pdf"], Text["old_report.pdf"]}

\* the search of the example returned its two results
C28_Witness ==
  /\ run.result = "ok" /\ disk = ThreeFiles /\ run.query = ReportPdf
  /\ Len(run.results) = 2
  /\ Len(run.walk) = 4

\* C29: when extensions are given, a result without an extension is there
\* only if the empty extension is among them; when none is given, every
\* visited entry that matches the name and, for a file, the limits is a
\* result.
C29_ExtensionlessEntries ==
  run.result = "ok" =>
    /\ run.query.file_types # {} =>
         \A k \in 1..Len(run.results) :
           Extension(run.results[k].file_name) = <<>> => Text[""] \in run.query.file_types
    /\ run.query.file_types = {} =>
         \A i \in 1..Len(run.walk) :
           LET p == run.walk[i]
           IN  (/\ NameMatches(run.query, run.regex, Text[p[Len(p)]])
                /\ IsFile(disk, p) => InLimits(run.query, disk, p))
               => \E k \in 1..Len(run.results) : run.results[k].path = p

\* extensions {""}: the directories docs and sub and the file README are
\* results, the files with an extension are not
C29_Witness ==
  /\ run.result = "ok" /\ disk = WithSub /\ run.query.file_types = {Text[""]}
  /\ {run.results[k].path : k \in 1..Len(run.results)} = {Docs, Sub, <<"docs", "sub", "README">>}

\* the entries a walk from Docs can reach and stat
Reachable(d) ==
  {p \in DOMAIN d : /\ p[1] = "docs" /\ d[p].stat
                    /\ \A k \in 1..(Len(p) - 1) : d[SubSeq(p, 1, k)].listed}

\* C30: a search whose root can be walked returns Ok, and every entry that
\* can be reached and satisfies the query is among its results, whatever
\* failed for other entries.
C30_EntryFailureExcluded ==
  (run.at = "returned" /\ Docs \in DOMAIN disk) =>
    /\ run.result = "ok"
    /\ \A p \in Reachable(disk) :
         Satisfies(run.query, disk, p) => \E k \in 1..Len(run.results) : run.results[k].path = p

\* C31: a result carries an excerpt only when content search is on, the
\* entry is a file whose extension is one of the text formats and its text
\* contains the pattern; a file that cannot be read as text gets no excerpt
\* and the search does not fail for it.
C31_ExcerptOnlyForTextFiles ==
  /\ \A k \in 1..Len(run.results) :
       LET r == run.results[k]
           q == run.query
       IN  r.match_context # <<>> =>
             /\ q.search_in_content
             /\ IsFile(disk, r.path)
             /\ Extension(r.file_name) # <<>>
             /\ IsTextFile(Lower(Extension(r.file_name)[1]))
             /\ disk[r.path].text # <<>>
             /\ IF q.case_sensitive THEN Contains(disk[r.path].text[1], q.pattern)
                ELSE Contains(Lower(disk[r.path].text[1]), Lower(q.pattern))
  /\ (run.at = "returned" /\ Compile(run.query) = <<>>) =>
       /\ run.result = "ok"
       /\ \A k \in 1..Len(run.results) :
            disk[run.results[k].path].text = <<>> => run.results[k].match_context = <<>>

\* the source of the regex a query asks for, from its fields
RegexSource(q) == IF q.case_sensitive THEN q.pattern ELSE <<40, 63, 105, 41>> \o q.pattern

\* C32: in regex mode with a malformed pattern the search returns an error
\* with no entry visited and no result; Regex::new is called once per search
\* in regex mode (never otherwise), on the pattern behind (?i) when
\* case_sensitive is false, and that regex decides the names.
C32_MalformedPatternFails ==
  /\ run.at # "new" =>
       /\ run.compiled = (IF run.query.is_regex THEN 1 ELSE 0)
       /\ (run.query.is_regex /\ ~RegexNewOk(RegexSource(run.query))) =>
            (run.result = "err" /\ Visited(run) = <<>> /\ run.results = <<>>)
       /\ (run.query.is_regex /\ RegexNewOk(RegexSource(run.query))) =>
            run.regex = <<RegexSource(run.query)>>
  /\ (run.result = "ok" /\ run.query.is_regex) =>
       \A i \in 1..Len(run.walk) :
         LET p == run.walk[i]
         IN  (\E k \in 1..Len(run.results) : run.results[k].path = p)
               <=> RegexIsMatch(RegexSource(run.query), Text[p[Len(p)]])

\* the regex ( was asked for, case-insensitive: one call of Regex::new, Err,
\* nothing walked
C32_Witness ==
  /\ run.result = "err" /\ run.query.is_regex /\ ~run.query.case_sensitive
  /\ run.query.pattern = Text["("]
  /\ run.compiled = 1 /\ run.walk = <<>> /\ run.results = <<>>

\* the place of an entry in a list of different entries
PlaceOf(items, x) == CHOOSE k \in 1..Len(items) : items[k] = x

\* C33: in a sorted snapshot two directories, and two non-directories, stand
\* in the order of the primary sort: the one that compares Less by the key
\* and direction first, and on Equal the one that stood first in the list
\* given (the sorts are stable); the snapshot holds the entries of the list
\* given, each once.
C33_GroupsKeepPrimaryOrder ==
  last.op = "sort_items" =>
    /\ \A i, j \in 1..Len(fm.items) :
         (i < j /\ DirKey(fm.items[i]) = DirKey(fm.items[j])) =>
           LET c == Comparison(fm.items[i], fm.items[j], fm.sort_by, fm.sort_order)
           IN  c < 0 \/ (c = 0 /\ PlaceOf(last.arg, fm.items[i]) < PlaceOf(last.arg, fm.items[j]))
    /\ Len(fm.items) = Len(last.arg)
    /\ {fm.items[k] : k \in 1..Len(fm.items)} = {last.arg[k] : k \in 1..Len(last.arg)}
    /\ \A i, j \in 1..Len(fm.items) : i # j => fm.items[i] # fm.items[j]

\* sorted by Size descending, a list that began with its smaller file and
\* ended with its two directories: the directories came first in the order
\* given (equal sizes), the files follow, larger first
C33_Witness ==
  /\ last.op = "sort_items" /\ fm.sort_by = "Size" /\ fm.sort_order = "Descending"
  /\ Len(last.arg) = MaxLen
  /\ last.arg[1].file_type # "Directory"
  /\ fm.items[1].file_type = "Directory"
  /\ \E i, j \in 1..Len(fm.items) :
       /\ i < j /\ fm.items[i].file_type # "Directory" /\ fm.items[j].file_type # "Directory"
       /\ fm.items[i].size > fm.items[j].size
       /\ PlaceOf(last.arg, fm.items[i]) > PlaceOf(last.arg, fm.items[j])

\* the fields of the session that C34 names
Visible34(m) ==
  <<m.current_path, m.history, m.history_index, m.sort_by, m.sort_order,
    m.show_hidden, m.items, m.selected_items>>

\* C34: when navigate_to, go_back, go_forward, set_sort or toggle_show_hidden
\* returns an error, the path, the history, the cursor, the sort key and
\* direction, show_hidden, the snapshot and the selection are as the call
\* found them.
C34_FailedCallLeavesNothing ==
  [][(/\ last'.op \in {"navigate_to", "go_back", "go_forward", "set_sort", "toggle_show_hidden"}
      /\ ~last'.ok)
     => Visible34(fm') = Visible34(fm)]_vars

\* C35: after every sequence of navigation calls from a new session, failed
\* or not, the cursor is inside the history and the current path is the
\* history entry under the cursor.
C35_PathIsHistoryAtCursor ==
  /\ fm.history_index + 1 \in 1..Len(fm.history)
  /\ fm.current_path = fm.history[fm.history_index + 1]

\* a go_forward that failed (the directory ahead cannot be listed) and left
\* the cursor on the last of several entries
C35_Witness ==
  /\ last.op = "go_forward" /\ ~last.ok
  /\ last.index < fm.history_index
  /\ fm.history_index = Len(fm.history) - 1
  /\ Len(fm.history) >= 2
  /\ fm.current_path = fm.history[Len(fm.history)]

\* ------------------------------------------- the file browser (file_browser.rs)
\* In SpecClicks `run` is the FileBrowser of the window: the sort key and
\* direction its buttons show, and `view`, the clone of the snapshot that the
\* frame on screen drew its rows from.  Every click spawns a task that
\* carries what the click captured; the task takes the session lock, runs
\* its method to the end and drops the guard, so a task that runs is one step.

\* FileBrowser::new, before the first frame
FileBrowser == [view |-> <<>>, sort_by |-> "Name", sort_order |-> "Ascending"]

\* the sort keys of the buttons of show_view_controls
BrowserKeys == {"Name", "Size"}

\* the places of the sidebar that are followed: the root
Places == {Root}

\* ChexExplorerApp::new: the session is new and the startup task, which
\* navigates to the home directory, is spawned
InitClicks ==
  /\ fm = New
  /\ last = Called("new", None, TRUE, 0, 1)
  /\ trip = Trip(-1, None, None, <<>>)
  /\ lock = Free
  /\ pc = [t \in Threads |-> IF t = 1 THEN "waiting" ELSE "idle"]
  /\ job = [t \in Tasks |-> IF t = 1 THEN Job("navigate_to", HomeDir) ELSE NoJob]
  /\ disk = <<>>
  /\ run = FileBrowser
  /\ events = <<>>

\* show_list_view: a frame clones the snapshot under the lock and draws a row
\* for each of its entries
ShowListView ==
  /\ CanLock(lock)
  /\ run' = [run EXCEPT !.view = fm.items]
  /\ UNCHANGED <<disk, events>>
  /\ UNCHANGED session

\* runtime.spawn(async move { .. }) with the values the closure captured
SpawnJob(t, intent) ==
  /\ pc[t] = "idle"
  /\ pc' = [pc EXCEPT ![t] = "waiting"]
  /\ job' = [job EXCEPT ![t] = intent]
  /\ UNCHANGED <<fm, last, trip, lock, disk, events>>

\* handle_item_interaction, response.clicked(): the task captures the row
\* index and the Ctrl state (view: the snapshot the row was drawn from, which
\* the task does not carry)
ClickRow(t, index, multiple) ==
  /\ index + 1 \in 1..Len(run.view)
  /\ SpawnJob(t, Job("select_item", [index |-> index, multiple |-> multiple, view |-> run.view]))
  /\ UNCHANGED run

\* show_view_controls, a sort key button: selectable_value assigns
\* self.sort_by and update_sort spawns set_sort with the browser's pair
ChooseSortKey(t, key) ==
  /\ run' = [run EXCEPT !.sort_by = key]
  /\ SpawnJob(t, Job("set_sort", <<key, run.sort_order>>))

\* show_view_controls, the direction button: flips self.sort_order and calls
\* update_sort
FlipSortOrder(t) ==
  LET flipped == IF run.sort_order = "Ascending" THEN "Descending" ELSE "Ascending"
  IN  /\ run' = [run EXCEPT !.sort_order = flipped]
      /\ SpawnJob(t, Job("set_sort", <<run.sort_by, flipped>>))

\* a place of the sidebar is clicked
OpenPlace(t, path) ==
  /\ SpawnJob(t, Job("navigate_to", path))
  /\ UNCHANGED run

\* the Refresh button and F5
PressRefresh(t) ==
  /\ SpawnJob(t, Job("refresh_items", None))
  /\ UNCHANGED run

\* what the method of a task leaves, for each outcome of the file system
Outcomes(intent) ==
  CASE intent.op = "select_item" ->
         {Ok(SelectItem(fm, intent.arg.index, intent.arg.multiple))}
    [] intent.op = "set_sort" ->
         {SetSort(fm, intent.arg[1], intent.arg[2], order) :
            order \in OrdersOf([fm EXCEPT !.sort_by = intent.arg[1], !.sort_order = intent.arg[2]],
                               fm.current_path)}
    [] intent.op = "navigate_to" ->
         {NavigateTo(fm, intent.arg, order, watch_ok) :
            order \in OrdersOf(fm, intent.arg), watch_ok \in BOOLEAN}
    [] intent.op = "refresh_items" ->
         {RefreshItems(fm, order) : order \in OrdersOf(fm, fm.current_path)}

\* a spawned task is polled: file_manager.lock().await, the method, and the
\* guard dropped at the end of the block (an Err is only logged)
RunTask(t) ==
  /\ pc[t] = "waiting"
  /\ CanLock(lock)
  /\ \E r \in Outcomes(job[t]) :
       /\ Len(r.fm.history) <= MaxHistory
       /\ fm' = r.fm
       /\ last' = Called(job[t].op, job[t].arg, r.ok, fm.history_index, Len(fm.history))
  /\ pc' = [pc EXCEPT ![t] = "idle"]
  /\ job' = [job EXCEPT ![t] = NoJob]
  /\ UNCHANGED <<trip, lock, disk, run, events>>

NextClicks ==
  \/ ShowListView
  \/ \E t \in Tasks, index \in ClickRows, multiple \in BOOLEAN : ClickRow(t, index, multiple)
  \/ \E t \in Tasks, key \in BrowserKeys : ChooseSortKey(t, key)
  \/ \E t \in Tasks : FlipSortOrder(t)
  \/ \E t \in Tasks, path \in Places : OpenPlace(t, path)
  \/ \E t \in Tasks : PressRefresh(t)
  \/ \E t \in Tasks : RunTask(t)

SpecClicks == InitClicks /\ [][NextClicks]_vars

\* C36: a select_item task is applied only while the snapshot its row was
\* drawn from is the snapshot of the session: the index it selects designates
\* the entry that was clicked.
C36_SelectOnClickedSnapshot ==
  last.op = "select_item" => fm.items = last.arg.view

\* C37: once every spawned task has run, the sort key and direction of the
\* session are those the file browser shows (the last chosen).
C37_LastSortWins ==
  (\A t \in Tasks : pc[t] = "idle") =>
    (fm.sort_by = run.sort_by /\ fm.sort_order = run.sort_order)

\* C38: the selection holds no index twice, and after select_all it is
\* exactly the indices 0 .. n-1 of the n entries of the snapshot.
C38_SelectionIsASet ==
  /\ \A i, j \in 1..Len(fm.selected_items) :
       i # j => fm.selected_items[i] # fm.selected_items[j]
  /\ last.op = "select_all" =>
       /\ Len(fm.selected_items) = Len(fm.items)
       /\ {fm.selected_items[k] : k \in 1..Len(fm.selected_items)} = 0..(Len(fm.items) - 1)

\* select_all on a snapshot of several entries
C38_Witness ==
  /\ last.op = "select_all"
  /\ Len(fm.items) >= 2
  /\ Len(fm.selected_items) = Len(fm.items)
  /\ fm.selected_items[1] = 0 /\ fm.selected_items[2] = 1

\* C39: execute() returns Ok only when every source path was copied; a source
\* path that was neither an existing file nor an existing directory when the
\* copy began makes it return an error.
C39_MissingSourceFails ==
  (run.at = "returned" /\ run.result = "ok") =>
    \A k \in 1..Len(run.op.source_paths) :
      \/ PathIsFile(run.before, run.op.source_paths[k])
      \/ PathIsDir(run.before, run.op.source_paths[k])

====
